---- MODULE Spec2Model ----
(***************************************************************************)
(* A model of go-farkle: the dice and scoring kernel (dice.go), the game   *)
(* state and its transition (gamestate, gametree.go ApplyAction), action   *)
(* selection (SelectAction), the depth-first state enumerator              *)
(* (recursiveEnumerateStates), the depth sort (SortedGameStates) and the   *)
(* value-iteration driver (UpdateAll / updateWorker).                      *)
(*                                                                         *)
(* The game is played at a reduced size: MaxNumDice dice instead of 6,     *)
(* scoreToWin and the saturation value MaxUint8 lowered.  The code is      *)
(* written in terms of these names, so every operator below is the code's  *)
(* with the smaller values substituted.  Win probabilities are exact       *)
(* rationals (a vector of numerators over one denominator) where the code  *)
(* has float64.                                                            *)
(***************************************************************************)
EXTENDS Integers, Sequences, FiniteSets, TLC

(***************************************************************************)
(* Bounds of the model.                                                    *)
(***************************************************************************)
\* The number of dice of the modelled game (MaxNumDice is 6 in dice.go:177).
MaxNumDice == 3
\* The banked score that ends the game (10000/incr = 200 in dice.go:394).
scoreToWin == 12
\* The largest value of a score field (math.MaxUint8 = 255 in the code).
\* It stays at least the largest trick score of MaxNumDice dice, as 255 does
\* for 6 dice, so that one addition wraps at most once.
MaxUint8 == 20

(***************************************************************************)
(* Program constants.                                                      *)
(***************************************************************************)
numSides == 6
\* MaxNumDice of dice.go:177, for the functions of the dice called on their own.
FullNumDice == 6
incr == 50
numScoreBits == 8
maxNumPlayers == 4
\* The width of the uint8 that CalculateScore sums trick scores in.
Uint8Wrap == 256

Max(a, b) == IF a >= b THEN a ELSE b
Min(a, b) == IF a <= b THEN a ELSE b

RECURSIVE Pow(_, _)
Pow(b, e) == IF e = 0 THEN 1 ELSE b * Pow(b, e - 1)

RECURSIVE SumSeq(_)
\* The sum of a sequence of numbers, by halves.
SumSeq(s) ==
    IF Len(s) = 0 THEN 0
    ELSE IF Len(s) = 1 THEN s[1]
    ELSE SumSeq(SubSeq(s, 1, Len(s) \div 2))
           + SumSeq(SubSeq(s, Len(s) \div 2 + 1, Len(s)))

RECURSIVE GCD(_, _)
GCD(a, b) == IF b = 0 THEN a ELSE GCD(b, a % b)

LCM(a, b) == (a \div GCD(a, b)) * b

RECURSIVE LCMSeq(_)
\* The least common multiple of a sequence of positive numbers, by halves.
LCMSeq(s) ==
    IF Len(s) = 0 THEN 1
    ELSE IF Len(s) = 1 THEN s[1]
    ELSE LCM(LCMSeq(SubSeq(s, 1, Len(s) \div 2)),
             LCMSeq(SubSeq(s, Len(s) \div 2 + 1, Len(s))))

SetMax(S) == CHOOSE m \in S : \A x \in S : x <= m
SetMin(S) == CHOOSE m \in S : \A x \in S : m <= x

RECURSIVE Concat(_)
\* The concatenation of a sequence of sequences (append(result, xs...)),
\* halving the sequence so that the evaluation stays shallow.
Concat(ss) ==
    IF Len(ss) = 0 THEN <<>>
    ELSE IF Len(ss) = 1 THEN ss[1]
    ELSE Concat(SubSeq(ss, 1, Len(ss) \div 2))
           \o Concat(SubSeq(ss, Len(ss) \div 2 + 1, Len(ss)))

Range(s) == {s[i] : i \in 1..Len(s)}

(***************************************************************************)
(* Dice kernel: dice.go, 170-388.  A Roll is the array of the counts of    *)
(* the faces 1..numSides (index 0 of the Go array is never used).          *)
(***************************************************************************)
Faces == 1..numSides

ZeroRoll == [d \in Faces |-> 0]

NewRoll(die) == [d \in Faces |-> IF d = die THEN 1 ELSE 0]

RepeatedRoll(die, n) == [d \in Faces |-> IF d = die THEN n ELSE 0]

CombineRolls(a, b) == [d \in Faces |-> a[d] + b[d]]

RECURSIVE CombineAll(_)
CombineAll(rolls) ==
    IF rolls = <<>> THEN ZeroRoll
    ELSE CombineRolls(Head(rolls), CombineAll(Tail(rolls)))

\* SubtractRolls panics when b holds more of a face than a.
CanSubtract(a, b) == \A d \in Faces : b[d] <= a[d]
SubtractRolls(a, b) == [d \in Faces |-> a[d] - b[d]]

NumDice(r) == SumSeq([d \in Faces |-> r[d]])

\* All numSides^nDice ordered outcomes, each as its unordered roll: the k-th
\* is the ((k - 1) \div numSides + 1)-th outcome of one die less with the
\* face ((k - 1) % numSides) + 1 added.
ExtendRolls(subResult) ==
    [k \in 1..(Len(subResult) * numSides) |->
       CombineRolls(subResult[((k - 1) \div numSides) + 1],
                    NewRoll(((k - 1) % numSides) + 1))]

RECURSIVE makeRolls(_)
makeRolls(nDice) ==
    IF nDice <= 0 THEN <<ZeroRoll>> ELSE ExtendRolls(makeRolls(nDice - 1))

\* makeRolls(nDice) for every number of dice, computed once.
orderedRolls == [nDice \in 0..MaxNumDice |-> makeRolls(nDice)]

\* Each distinct roll counted once.
rollToFreqOnce ==
    [nDice \in 0..MaxNumDice |-> [r \in Range(orderedRolls[nDice]) |-> 1]]

\* rollToFreq of makeWeightedRolls: for each distinct roll, how many of the
\* ordered outcomes give it.
rollToFreq ==
    [nDice \in 0..MaxNumDice |->
       [r \in Range(orderedRolls[nDice]) |->
          Cardinality({i \in 1..Len(orderedRolls[nDice]) :
                         orderedRolls[nDice][i] = r})]]

\* The order in which Go ranges over the map rollToFreq is not fixed by the
\* language; the model takes the rolls by rising or by falling key.
RollOrders == {"asc", "desc"}

RollKey(r) == SumSeq([d \in Faces |-> r[d] * Pow(MaxNumDice + 1, numSides - d)])

\* For each roll, the number of rolls of as many dice with a smaller key.
rollRank ==
    [nDice \in 0..MaxNumDice |->
       [r \in DOMAIN rollToFreq[nDice] |->
          Cardinality({q \in DOMAIN rollToFreq[nDice] : RollKey(q) < RollKey(r)})]]

\* The i-th roll the range over the map gives.
RangeOverMap(nDice, order, i) ==
    CHOOSE r \in DOMAIN rollToFreq[nDice] :
       rollRank[nDice][r] = IF order = "asc" THEN i - 1
                            ELSE Cardinality(DOMAIN rollToFreq[nDice]) - i

\* makeWeightedRolls: Prob is Count / Total.  The ID is renumbered by allRolls.
makeWeightedRolls(nDice, order) ==
    [i \in 1..Cardinality(DOMAIN rollToFreq[nDice]) |->
       [Roll |-> RangeOverMap(nDice, order, i), ID |-> i - 1,
        Count |-> rollToFreq[nDice][RangeOverMap(nDice, order, i)],
        Total |-> Pow(numSides, nDice)]]

\* result[nDice] of allRolls before the ids are renumbered.
madeRolls ==
    [order \in RollOrders |->
       [nDice \in 0..MaxNumDice |-> makeWeightedRolls(nDice, order)]]

RECURSIVE RollIDBase(_)
\* The number of roll ids handed out before the rolls of nDice dice.
RollIDBase(nDice) ==
    IF nDice = 0 THEN 0
    ELSE RollIDBase(nDice - 1) + Len(madeRolls["asc"][nDice - 1])

allRolls ==
    [order \in RollOrders |->
       [nDice \in 0..MaxNumDice |->
          [i \in 1..Len(madeRolls[order][nDice]) |->
             [madeRolls[order][nDice][i] EXCEPT !.ID = RollIDBase(nDice) + i - 1]]]]

nDistinctRolls == RollIDBase(MaxNumDice) + Len(madeRolls["asc"][MaxNumDice])

RollIDs == 0..(nDistinctRolls - 1)

\* The number of rolls of exactly maxDice dice.
DistinctRollsOfSize(maxDice) == Cardinality(Range(makeRolls(maxDice)))

\* nDistinctRolls, lines 341-347, were MaxNumDice maxDice: the sum over the
\* numbers of dice 0..maxDice of len(makeWeightedRolls(nDice)), which is the
\* number of keys of rollToFreq.
DistinctRollsUpTo(maxDice) ==
    SumSeq([k \in 1..(maxDice + 1) |-> Cardinality(Range(makeRolls(k - 1)))])

AllWeightedRolls ==
    [order \in RollOrders |->
       UNION {Range(allRolls[order][nDice]) : nDice \in 0..MaxNumDice}]

AllRollSet == {w.Roll : w \in AllWeightedRolls["asc"]}

rollsByID ==
    [order \in RollOrders |->
       [id \in RollIDs |-> (CHOOSE w \in AllWeightedRolls[order] : w.ID = id).Roll]]

rollToID ==
    [order \in RollOrders |->
       [r \in AllRollSet |-> (CHOOSE w \in AllWeightedRolls[order] : w.Roll = r).ID]]

\* For each roll id, the number of faces of the roll and not of its dice.
rollNumFaces ==
    [order \in RollOrders |->
       [id \in RollIDs |->
          Cardinality({d \in Faces : rollsByID[order][id][d] > 0})]]

rollNumDice ==
    [order \in RollOrders |-> [id \in RollIDs |-> NumDice(rollsByID[order][id])]]

(***************************************************************************)
(* Scoring kernel: dice.go, 390-662.                                       *)
(***************************************************************************)
TrickTypes ==
    {"Single1", "Single5", "Three1s", "Three2s", "Three3s", "Three4s",
     "Three5s", "Three6s", "FourOfAKind", "FiveOfAKind", "SixOfAKind",
     "Straight", "ThreePairs", "FourOfAKindPlusPair", "TwoTriplets"}

\* The scores counted in units of twice incr: a single 5 counts 0.
trickScoresCoarse ==
    [t \in TrickTypes |->
       IF t = "Single5" THEN 50 \div (2 * incr) ELSE 100 \div (2 * incr)]

trickScores ==
    [t \in TrickTypes |->
       CASE t = "Single1" -> 100 \div incr
         [] t = "Single5" -> 50 \div incr
         [] t = "Three1s" -> 300 \div incr
         [] t = "Three2s" -> 200 \div incr
         [] t = "Three3s" -> 300 \div incr
         [] t = "Three4s" -> 400 \div incr
         [] t = "Three5s" -> 500 \div incr
         [] t = "Three6s" -> 600 \div incr
         [] t = "FourOfAKind" -> 1000 \div incr
         [] t = "FiveOfAKind" -> 2000 \div incr
         [] t = "SixOfAKind" -> 3000 \div incr
         [] t = "Straight" -> 1500 \div incr
         [] t = "ThreePairs" -> 1500 \div incr
         [] t = "FourOfAKindPlusPair" -> 1500 \div incr
         [] t = "TwoTriplets" -> 2500 \div incr]

threeOfAKind ==
    <<"Three1s", "Three2s", "Three3s", "Three4s", "Three5s", "Three6s">>

singles == [die \in {1, 5} |-> IF die = 1 THEN "Single1" ELSE "Single5"]

TrickScore(trick) == trickScores[trick.Type]

isStraight(roll) == \A die \in Faces : roll[die] = 1

isThreePairs(roll) == Cardinality({die \in Faces : roll[die] = 2}) >= 3

isFourOfAKindPlusPair(roll) ==
    (\E die \in Faces : roll[die] = 4) /\ (\E die \in Faces : roll[die] = 2)

isTwoTriplets(roll) == Cardinality({die \in Faces : roll[die] = 3}) >= 2

RECURSIVE enumeratePossibleTricks(_)

\* The trick alone, and the trick followed by every list of tricks of the
\* dice that remain.
remainingTricks(roll, trick) ==
    LET addl == enumeratePossibleTricks(SubtractRolls(roll, trick.Dice))
    IN  <<<<trick>>>> \o [i \in 1..Len(addl) |-> <<trick>> \o addl[i]]

\* The body of the loop over the faces, for one face.
TricksOfDie(roll, die) ==
    LET count == roll[die]
    IN  (IF count >= 1 /\ die \in {1, 5}
         THEN remainingTricks(roll, [Type |-> singles[die], Dice |-> NewRoll(die)])
         ELSE <<>>)
     \o (IF count >= 3
         THEN remainingTricks(roll, [Type |-> threeOfAKind[die],
                                     Dice |-> RepeatedRoll(die, count)])
         ELSE <<>>)
     \o (IF count >= 4
         THEN remainingTricks(roll, [Type |-> "FourOfAKind",
                                     Dice |-> RepeatedRoll(die, count)])
         ELSE <<>>)
     \o (IF count >= 5
         THEN remainingTricks(roll, [Type |-> "FiveOfAKind",
                                     Dice |-> RepeatedRoll(die, count)])
         ELSE <<>>)
     \o (IF count >= 6
         THEN <<<<[Type |-> "SixOfAKind", Dice |-> roll]>>>>
         ELSE <<>>)

\* No pattern of six dice is recognised.
SpecialTricksNone(roll) == <<>>

SpecialTricks(roll) ==
    IF isStraight(roll) THEN <<<<[Type |-> "Straight", Dice |-> roll]>>>>
    ELSE IF isThreePairs(roll) THEN <<<<[Type |-> "ThreePairs", Dice |-> roll]>>>>
    ELSE IF isFourOfAKindPlusPair(roll)
         THEN <<<<[Type |-> "FourOfAKindPlusPair", Dice |-> roll]>>>>
    ELSE IF isTwoTriplets(roll) THEN <<<<[Type |-> "TwoTriplets", Dice |-> roll]>>>>
    ELSE <<>>

enumeratePossibleTricks(roll) ==
    Concat([die \in Faces |-> TricksOfDie(roll, die)]) \o SpecialTricks(roll)

\* The score of the first list of tricks alone.
MaxTrickScoreOfFirst(trickSets) ==
    IF Len(trickSets) = 0 THEN 0
    ELSE SumSeq([j \in 1..Len(trickSets[1]) |-> TrickScore(trickSets[1][j])])
           % Uint8Wrap

\* result of CalculateScore over a list of trick lists; each sum is a uint8.
MaxTrickScore(trickSets) ==
    SetMax({0} \cup
           {SumSeq([j \in 1..Len(trickSets[i]) |-> TrickScore(trickSets[i][j])])
              % Uint8Wrap : i \in 1..Len(trickSets)})

CalculateScore(held) == MaxTrickScore(enumeratePossibleTricks(held))

potentialHolds(roll) ==
    LET trickSets == enumeratePossibleTricks(roll)
    IN  [i \in 1..Len(trickSets) |->
           CombineAll([j \in 1..Len(trickSets[i]) |-> trickSets[i][j].Dice])]

\* potentialHolds of every roll, computed once.
holdsOfRoll == [r \in AllRollSet |-> potentialHolds(r)]

rollIDToPotentialHolds ==
    [order \in RollOrders |->
       [id \in RollIDs |-> holdsOfRoll[rollsByID[order][id]]]]

IsFarkle(roll) == Len(holdsOfRoll[roll]) = 0

\* Every roll that is a potential hold of some roll.
AllHolds == UNION {Range(holdsOfRoll[r]) : r \in AllRollSet}

scoreOfHold == [h \in AllHolds |-> CalculateScore(h)]

\* For each roll id, the score of holding it; 0 for a roll nobody can hold.
scoreCache ==
    [order \in RollOrders |->
       [id \in RollIDs |->
          IF rollsByID[order][id] \in AllHolds
          THEN scoreOfHold[rollsByID[order][id]] ELSE 0]]

(***************************************************************************)
(* Actions: gametree.go, 509-631.                                          *)
(***************************************************************************)
FarkleAction == [HeldDiceID |-> 0, ContinueRolling |-> FALSE]

actionsOfHolds(holds, order) ==
    Concat([i \in 1..Len(holds) |->
              <<[HeldDiceID |-> rollToID[order][holds[i]], ContinueRolling |-> TRUE],
                [HeldDiceID |-> rollToID[order][holds[i]], ContinueRolling |-> FALSE]>>])

rollIDToPotentialActions ==
    [order \in RollOrders |->
       [id \in RollIDs |-> actionsOfHolds(rollIDToPotentialHolds[order][id], order)]]

(***************************************************************************)
(* The state of the model.                                                 *)
(***************************************************************************)
VARIABLES
    prog,        \* which entry point this behaviour runs
    rollOrder,   \* the order Go's map iteration gave allRolls at package init
    pkgTables,   \* the package-level tables, as init time made them
    numPlayers,  \* the numPlayers argument
    \* allGameStates / recursiveEnumerateStates
    epc,         \* "start", "running" or "done"
    callStack,   \* the frames of recursiveEnumerateStates, outermost first
    inStack,     \* the bitMask, as the set of ids whose bit is set
    depthMap,    \* the depth map, as the ids that were Set and their depth
    emitted,     \* the (depth, state) pairs passed to yield, in order
    \* SortedGameStates
    spc,         \* "append", "iterate", "closed" or "panic"
    sorterBuf,   \* the records appended to the sorter, in order
    sortIter,    \* the records in the order sorter.Sort() gave them
    sortPos,     \* how many records the returned iterator has yielded
    sortedOut,   \* the (depth, state) pairs it yielded, in order
    \* UpdateAll / updateWorker
    db,          \* the value table
    stream,      \* the (depth, state) stream UpdateAll ranges over
    upc,         \* where UpdateAll is: "range", "wait", "send", "lastwait", "done"
    pos,         \* how many pairs of the stream UpdateAll has sent
    currentDepth,
    chans,       \* every workCh UpdateAll has made, the last being workCh;
                 \* depth is the depth of the states sent on it
    workers,     \* the updateWorker goroutines that have not returned
    wg,          \* the WaitGroup counter
    mx,          \* the RWMutex: the readers and the writer holding it
    putLog,      \* the ids Put since UpdateAll was called, in order
    \* calcEndGameValue
    egState,
    egResult,
    \* one call of a function of the package
    fnCall,      \* the function and its argument
    fnResult,    \* <<>> before the call, <<what it returned>> after
    \* solve-farkle's main and the FileDB
    mpc,         \* where main is: "start", "open" or "exited"
    exitCode,    \* the code main exited with
    dbPath,      \* the file at the path of the database, or "missing"
    fileDB,      \* the *FileDB NewFileDB returned, or "nil"
    lastGet,     \* what the last Get was called on and what it returned
    lastPut,     \* for each state Put since the file was mapped, the vector
    created,     \* whether NewFileDB made the file
    mainRun      \* main's flags and files, where it is past the opening, the
                 \* passes it has made and the calls it has made, in order

enumVars == <<epc, callStack, inStack, depthMap, emitted>>
sortVars == <<spc, sorterBuf, sortIter, sortPos, sortedOut>>
updateVars == <<db, stream, upc, pos, currentDepth, chans, workers, wg, mx, putLog>>
egVars == <<egState, egResult>>
callVars == <<fnCall, fnResult>>
fileVars == <<mpc, exitCode, dbPath, fileDB, lastGet, lastPut, created, mainRun>>
vars == <<prog, rollOrder, pkgTables, numPlayers, enumVars, sortVars, updateVars, egVars,
          callVars, fileVars>>

(***************************************************************************)
(* GameState: unnamed/part_000.  PlayerScores[i] of the code is            *)
(* PlayerScores[i + 1] here.                                               *)
(***************************************************************************)
NewGameState(n) ==
    [ScoreThisRound |-> 0, NumDiceToRoll |-> MaxNumDice, NumPlayers |-> n,
     PlayerScores |-> [i \in 1..maxNumPlayers |-> 0]]

\* 1 << e, for the shifts that fit the integers of the model checker.
ShiftLeft == [e \in 0..30 |-> Pow(2, e)]

\* ID with every player's score one field lower.
IDScoresOneLower(gs) ==
    (gs.NumDiceToRoll - 1) * ShiftLeft[(gs.NumPlayers + 1) * numScoreBits]
    + SumSeq([i \in 1..gs.NumPlayers |->
                gs.PlayerScores[i] * ShiftLeft[(gs.NumPlayers - i) * numScoreBits]])
    + gs.ScoreThisRound

ID(gs) ==
    (gs.NumDiceToRoll - 1) * ShiftLeft[(gs.NumPlayers + 1) * numScoreBits]
    + SumSeq([i \in 1..gs.NumPlayers |->
                gs.PlayerScores[i] * ShiftLeft[(gs.NumPlayers - (i - 1)) * numScoreBits]])
    + gs.ScoreThisRound

\* part_000, 135-137.
calcNumDistinctStates(n) == MaxNumDice * ShiftLeft[(n + 1) * numScoreBits]

\* calcOffset, db.go 369-379: the record index FileDB.Put and FileDB.Get
\* compute from the state.
calcOffset(gs) ==
    (gs.NumDiceToRoll - 1) * ShiftLeft[(gs.NumPlayers + 1) * numScoreBits]
    + gs.ScoreThisRound * ShiftLeft[gs.NumPlayers * numScoreBits]
    + SumSeq([i \in 1..gs.NumPlayers |->
                gs.PlayerScores[i] * ShiftLeft[(i - 1) * numScoreBits]])

CurrentPlayerScore(gs) == gs.PlayerScores[1]

\* A game that is over as soon as any player has the score to win.
IsGameOverAtOnce(gs) == \E i \in 1..gs.NumPlayers : gs.PlayerScores[i] >= scoreToWin

IsGameOver(gs) == CurrentPlayerScore(gs) >= scoreToWin

RECURSIVE HighestScoreUpTo(_, _)
HighestScoreUpTo(gs, k) ==
    IF k = 0 THEN 0 ELSE Max(gs.PlayerScores[k], HighestScoreUpTo(gs, k - 1))

\* The score of the player whose turn it is.
HighestScoreOfFirst(gs) == gs.PlayerScores[1]

HighestScore(gs) == HighestScoreUpTo(gs, gs.NumPlayers)

(***************************************************************************)
(* ApplyAction: gametree.go, 529-565.  A score is an unsigned integer of   *)
(* the width whose largest value is MaxUint8.                              *)
(***************************************************************************)
\* a + b in that width, as it wraps.
AddOverflowWraps(a, b) == (a + b) % (MaxUint8 + 1)

\* a + b in that width, replaced by MaxUint8 when it wrapped.
AddOverflow(a, b) ==
    LET newScore == (a + b) % (MaxUint8 + 1)
    IN  IF newScore < a THEN MaxUint8 ELSE newScore

\* The panic of line 541.
\* The test of line 541 with >= for >.
ApplyActionPanicsOnAll(state, action) ==
    pkgTables.rollNumDice[action.HeldDiceID] >= state.NumDiceToRoll

ApplyActionPanics(state, action) ==
    pkgTables.rollNumDice[action.HeldDiceID] > state.NumDiceToRoll

\* ApplyAction without lines 547-549: no dice left stays no dice left.
ApplyActionNoHotDice(state, action) ==
    LET trickScore  == pkgTables.scoreCache[action.HeldDiceID]
        round       == IF trickScore = 0 THEN 0
                       ELSE AddOverflow(state.ScoreThisRound, trickScore)
        numDiceHeld == pkgTables.rollNumDice[action.HeldDiceID]
        dice        == state.NumDiceToRoll - numDiceHeld
        n           == state.NumPlayers
    IN  IF action.ContinueRolling
        THEN [state EXCEPT !.ScoreThisRound = round, !.NumDiceToRoll = dice]
        ELSE [state EXCEPT
                !.PlayerScores = [i \in 1..maxNumPlayers |->
                                    IF i < n THEN state.PlayerScores[i + 1]
                                    ELSE IF i = n
                                         THEN AddOverflow(state.PlayerScores[1], round)
                                         ELSE state.PlayerScores[i]],
                !.ScoreThisRound = 0,
                !.NumDiceToRoll = MaxNumDice]

ApplyAction(state, action) ==
    LET trickScore  == pkgTables.scoreCache[action.HeldDiceID]
        round       == IF trickScore = 0 THEN 0
                       ELSE AddOverflow(state.ScoreThisRound, trickScore)
        numDiceHeld == pkgTables.rollNumDice[action.HeldDiceID]
        left        == state.NumDiceToRoll - numDiceHeld
        dice        == IF left = 0 THEN MaxNumDice ELSE left
        n           == state.NumPlayers
    IN  IF action.ContinueRolling
        THEN [state EXCEPT !.ScoreThisRound = round, !.NumDiceToRoll = dice]
        ELSE [state EXCEPT
                !.PlayerScores = [i \in 1..maxNumPlayers |->
                                    IF i < n THEN state.PlayerScores[i + 1]
                                    ELSE IF i = n
                                         THEN AddOverflow(state.PlayerScores[1], round)
                                         ELSE state.PlayerScores[i]],
                !.ScoreThisRound = 0,
                !.NumDiceToRoll = MaxNumDice]

\* A continue stays a continue when the round score has saturated.
OverflowStopNever(state, action) == action

\* Lines 574-578 and 912-916: a continue is taken as a stop once the round
\* score has saturated.
OverflowStop(state, action) ==
    IF state.ScoreThisRound = MaxUint8 /\ action.ContinueRolling
    THEN [action EXCEPT !.ContinueRolling = FALSE]
    ELSE action

\* 500 / incr of lines 581 and 919.
minOnBoard == 500 \div incr

\* The test of lines 581 and 919 never taken.
NotOnBoardStopNever(state, action, newState) == FALSE

\* Lines 581 and 919: the stop that would bank less than 500 points for a
\* player who has none.
NotOnBoardStop(state, action, newState) ==
    /\ state.PlayerScores[1] = 0
    /\ ~action.ContinueRolling
    /\ newState.PlayerScores[state.NumPlayers] < minOnBoard

(***************************************************************************)
(* Win probabilities.  A [maxNumPlayers]float64 is the vector of its        *)
(* numerators over one denominator, in lowest terms.                        *)
(***************************************************************************)
Slots == 1..maxNumPlayers

\* num / den in lowest terms.
Normalize(num, den) ==
    LET g == GCD(den, GCD(GCD(num[1], num[2]), GCD(num[3], num[4])))
    IN  [num |-> [i \in Slots |-> num[i] \div g], den |-> den \div g]

\* var result [maxNumPlayers]float64
ZeroValue == [num |-> [i \in Slots |-> 0], den |-> 1]

\* a[i] > b[i] of two vectors.
Greater(a, b, i) == a.num[i] * b.den > b.num[i] * a.den

\* The sum of the first n slots is 1 and each of them is in [0, 1].
IsDistribution(v, n) ==
    /\ SumSeq([i \in 1..n |-> v.num[i]]) = v.den
    /\ \A i \in 1..n : v.num[i] >= 0 /\ v.num[i] <= v.den

\* The vector left as the table gives it.
unrotateNot(pWin, n) == pWin

\* unrotate, lines 607-612: copy moves numPlayers - 1 values.
unrotate(pWin, n) ==
    [num |-> [i \in Slots |-> IF i = 1 THEN pWin.num[n]
                              ELSE IF i <= n THEN pWin.num[i - 1]
                              ELSE 0],
     den |-> pWin.den]

\* The first n slots of pWin with the winners' share of lines 703-721.
calcEndGameValue(state) ==
    LET winningScore == HighestScore(state)
        winners == {player \in 1..state.NumPlayers :
                      state.PlayerScores[player] = winningScore}
    IN  [num |-> [i \in Slots |-> IF i \in winners THEN 1 ELSE 0],
         den |-> Cardinality(winners)]

(***************************************************************************)
(* The value table (DB).  Its file is filled at creation and changed by    *)
(* Put alone, so a table is what it was when UpdateAll was called (prior)  *)
(* and the records Put since.                                              *)
(***************************************************************************)
\* The state with the id, of n players: the inverse of ID.
StateOfID(id, n) ==
    [ScoreThisRound |-> id % ShiftLeft[numScoreBits],
     NumDiceToRoll |-> (id \div ShiftLeft[(n + 1) * numScoreBits]) + 1,
     NumPlayers |-> n,
     PlayerScores |->
        [i \in Slots |->
           IF i <= n
           THEN (id \div ShiftLeft[(n - (i - 1)) * numScoreBits])
                   % ShiftLeft[numScoreBits]
           ELSE 0]]

\* The tables UpdateAll is called with: the table as created (1/numPlayers
\* in every slot), and a table in which every record gives the win to the
\* players with the highest banked score.
Priors == {"fresh", "leader"}

PriorValue(prior, id, n) ==
    IF prior = "fresh"
    THEN [num |-> [i \in Slots |-> IF i <= n THEN 1 ELSE 0], den |-> n]
    ELSE calcEndGameValue(StateOfID(id, n))

\* db.Get(id)
dbGet(table, id, n) ==
    IF id \in DOMAIN table.puts THEN table.puts[id]
    ELSE PriorValue(table.prior, id, n)

\* db.Put(id, pWin)
dbPut(table, id, pWin) ==
    [table EXCEPT !.puts = [i \in DOMAIN table.puts \cup {id} |->
                              IF i = id THEN pWin ELSE table.puts[i]]]

(***************************************************************************)
(* SelectAction: gametree.go, 567-605.                                     *)
(***************************************************************************)
\* One pass of the loop of lines 573-594, for one potential action: best is
\* bestAction and bestWinProb before it and, in evaluated, the actions whose
\* new state was looked up in the table so far.
SelectStep(state, table, best, potentialAction) ==
    LET action   == OverflowStop(state, potentialAction)
        newState == ApplyAction(state, action)
        got      == dbGet(table, ID(newState), state.NumPlayers)
        pSubtree == IF action.ContinueRolling THEN got
                    ELSE unrotate(got, state.NumPlayers)
    IN  IF NotOnBoardStop(state, action, newState)
        THEN best
        ELSE IF Greater(pSubtree, best.bestWinProb, 1)
        THEN [bestAction |-> action, bestWinProb |-> pSubtree,
              evaluated |-> Append(best.evaluated, action)]
        ELSE [best EXCEPT !.evaluated = Append(@, action)]

RECURSIVE SelectLoop(_, _, _, _, _, _)
\* The passes of the loop for the potential actions from the lo-th to the
\* hi-th, in order, from best: those of the first half, then those of the
\* second from what the first half leaves.  (The test on first has TLC
\* compute it before the second half rather than within it, which keeps the
\* evaluation shallow.)
SelectLoop(state, table, best, potentialActions, lo, hi) ==
    IF lo > hi THEN best
    ELSE IF lo = hi
    THEN SelectStep(state, table, best, potentialActions[lo])
    ELSE LET first  == SelectLoop(state, table, best, potentialActions,
                                  lo, (lo + hi) \div 2)
             second == SelectLoop(state, table, first, potentialActions,
                                  ((lo + hi) \div 2) + 1, hi)
         IN  IF first = first THEN second ELSE first

\* The action, its value, and the actions evaluated on the way.
SelectAction(state, rollID, table) ==
    IF Len(pkgTables.rollIDToPotentialActions[rollID]) = 0
    THEN [bestAction |-> FarkleAction,
          bestWinProb |->
             unrotate(dbGet(table, ID(ApplyAction(state, FarkleAction)),
                            state.NumPlayers),
                      state.NumPlayers),
          evaluated |-> <<>>]
    ELSE SelectLoop(state, table,
                    [bestAction |-> FarkleAction, bestWinProb |-> ZeroValue,
                     evaluated |-> <<>>],
                    pkgTables.rollIDToPotentialActions[rollID],
                    1, Len(pkgTables.rollIDToPotentialActions[rollID]))

(***************************************************************************)
(* calcStateValue: gametree.go, 723-733.  wRoll.Prob is Count / Total.     *)
(***************************************************************************)
\* The sum over the rolls of Count / Total times the values, the values being
\* given as a sequence in the order of the rolls.
WeightedSum(wRolls, values, n) ==
    LET den == LCMSeq([r \in 1..Len(values) |-> values[r].den])
    IN  Normalize(
          [i \in Slots |->
             IF i <= n
             THEN SumSeq([r \in 1..Len(values) |->
                            wRolls[r].Count * values[r].num[i]
                              * (den \div values[r].den)])
             ELSE 0],
          den * wRolls[1].Total)

calcStateValue(state, table) ==
    WeightedSum(pkgTables.allRolls[state.NumDiceToRoll],
                [r \in 1..Len(pkgTables.allRolls[state.NumDiceToRoll]) |->
                   SelectAction(state, pkgTables.allRolls[state.NumDiceToRoll][r].ID,
                                table).bestWinProb],
                state.NumPlayers)

(***************************************************************************)
(* The bytes of a game state and of a sorter record.                       *)
(***************************************************************************)
ByteWrap == 256

\* The fields without the number of players.
SerializeToNoPlayers(gs) ==
    <<gs.ScoreThisRound, gs.NumDiceToRoll>>
      \o [i \in 1..gs.NumPlayers |-> gs.PlayerScores[i]]

\* SerializeTo, part_000 119-133: the first nBytes of buf.
SerializeTo(gs) ==
    <<gs.ScoreThisRound, gs.NumDiceToRoll, gs.NumPlayers>>
      \o [i \in 1..gs.NumPlayers |-> gs.PlayerScores[i]]

\* GameStateFromBytes, part_000 32-41.
GameStateFromBytes(buf) ==
    [ScoreThisRound |-> buf[1], NumDiceToRoll |-> buf[2], NumPlayers |-> buf[3],
     PlayerScores |-> [i \in Slots |->
                         IF i <= buf[3] /\ i + 3 <= Len(buf) THEN buf[i + 3] ELSE 0]]

\* binary.LittleEndian.PutUint16 and Uint16.
PutUint16(v) == <<v % ByteWrap, (v \div ByteWrap) % ByteWrap>>
GetUint16(data) == data[1] + ByteWrap * data[2]

\* math.MaxUint16
MaxUint16 == 65535

\* Lines 815-817: data[:n+2].
SortData(depth, gs) == PutUint16(depth) \o SerializeTo(gs)

\* compareGameStateDepth with the two results swapped.
compareGameStateDepthSwapped(d1, d2) ==
    IF GetUint16(d1) < GetUint16(d2) THEN 1
    ELSE IF GetUint16(d1) = GetUint16(d2) THEN 0
    ELSE -1

\* compareGameStateDepth, lines 855-866.
compareGameStateDepth(d1, d2) ==
    IF GetUint16(d1) < GetUint16(d2) THEN -1
    ELSE IF GetUint16(d1) = GetUint16(d2) THEN 0
    ELSE 1

(***************************************************************************)
(* The enumerator: gametree.go, 868-944.                                   *)
(***************************************************************************)
\* The width of a depth in the depth map (depthmap.go, Set).
Uint16Wrap == 65536

\* depthMap.Get: the file is created by Truncate, so an id never Set reads 0.
DepthGet(dm, id) == IF id \in DOMAIN dm THEN dm[id] ELSE 0

\* depthMap.Set.
DepthSet(dm, id, depth) ==
    [i \in DOMAIN dm \cup {id} |-> IF i = id THEN depth % Uint16Wrap ELSE dm[i]]

\* Lines 909-911 and 925-927: the actions the two loops visit for the rolls of
\* nDice dice, in order; a roll without potential actions gives the one
\* farkle action.
rollActions ==
    [order \in RollOrders |->
       [nDice \in 1..MaxNumDice |->
          Concat([r \in 1..Len(allRolls[order][nDice]) |->
                    LET wRoll == allRolls[order][nDice][r]
                        potentialActions == rollIDToPotentialActions[order][wRoll.ID]
                    IN  IF Len(potentialActions) = 0
                        THEN <<[rollID |-> wRoll.ID, farkle |-> TRUE,
                                action |-> FarkleAction]>>
                        ELSE [i \in 1..Len(potentialActions) |->
                                [rollID |-> wRoll.ID, farkle |-> FALSE,
                                 action |-> potentialActions[i]]]])]]

\* The tables as the package's initialisation leaves them when the maps are
\* ranged over in the order.
PackageVars(order) ==
    [allRolls |-> allRolls[order],
     rollNumDice |-> rollNumDice[order],
     scoreCache |-> scoreCache[order],
     rollIDToPotentialActions |-> rollIDToPotentialActions[order],
     rollActions |-> rollActions[order]]

\* Lines 909-939: the (action, new state) pairs the loops hand to the
\* recursive call, in order.
Transitions(state) ==
    LET acts == pkgTables.rollActions[state.NumDiceToRoll]
    IN  SelectSeq(
          [i \in 1..Len(acts) |->
             [rollID |-> acts[i].rollID, farkle |-> acts[i].farkle,
              action |-> IF acts[i].farkle THEN acts[i].action
                         ELSE OverflowStop(state, acts[i].action),
              newState |-> ApplyAction(state,
                             IF acts[i].farkle THEN acts[i].action
                             ELSE OverflowStop(state, acts[i].action))]],
          LAMBDA e : e.farkle \/ ~NotOnBoardStop(state, e.action, e.newState))

\* ReturnsAtOnce without the test of the bit mask (lines 899-901).
ReturnsAtOnceNoStack(state, bits, dm) ==
    \/ IsGameOver(state)
    \/ DepthGet(dm, ID(state)) > 0

\* ReturnsAtOnce without the test of the depth map (lines 895-898).
ReturnsAtOnceNoDepth(state, bits, dm) ==
    \/ IsGameOver(state)
    \/ ID(state) \in bits

\* Lines 891-903: the call returns before it marks the state.
ReturnsAtOnce(state, bits, dm) ==
    \/ IsGameOver(state)
    \/ DepthGet(dm, ID(state)) > 0
    \/ ID(state) \in bits

\* ... and the depth it returns then.
ReturnedDepth(state, dm) == IF IsGameOver(state) THEN 0 ELSE DepthGet(dm, ID(state))

\* The first transition from index k on whose call does not return at once;
\* Len(trans) + 1 if there is none.
NextToExpand(trans, k, bits, dm) ==
    SetMin({Len(trans) + 1} \cup
           {i \in k..Len(trans) : ~ReturnsAtOnce(trans[i].newState, bits, dm)})

\* maxChildDepth left as it was by the calls that returned at once.
MaxReturnedNone(trans, from, to, dm, maxChildDepth) == maxChildDepth

\* maxChildDepth after the calls of trans[from .. to - 1] returned at once.
MaxReturned(trans, from, to, dm, maxChildDepth) ==
    SetMax({maxChildDepth} \cup
           {ReturnedDepth(trans[i].newState, dm) : i \in from..(to - 1)})

\* Line 941 without the increment.
FinalDepthNoIncrement(maxChildDepth) == maxChildDepth

\* Line 941.
FinalDepth(maxChildDepth) == maxChildDepth + 1

\* Lines 904-908: the frame of a call that goes on to its loops.
NewFrame(state) == [state |-> state, next |-> 1, maxChildDepth |-> 0]

Top == callStack[Len(callStack)]

\* allGameStates calls recursiveEnumerateStates(initialState, ...).
EnumStart ==
    /\ prog \in {"enumerate", "sort"}
    /\ epc = "start"
    /\ IF ReturnsAtOnce(NewGameState(numPlayers), inStack, depthMap)
       THEN /\ epc' = "done"
            /\ UNCHANGED <<callStack, inStack>>
       ELSE /\ epc' = "running"
            /\ callStack' = <<NewFrame(NewGameState(numPlayers))>>
            /\ inStack' = inStack \cup {ID(NewGameState(numPlayers))}
    /\ UNCHANGED <<depthMap, emitted>>
    /\ UNCHANGED <<prog, rollOrder, pkgTables, numPlayers, sortVars, updateVars, egVars, callVars, fileVars>>

\* What the caller of allGameStates does with a pair: the loop of
\* SortedGameStates (lines 809-825) appends its bytes to the sorter.
Yield(depth, state) ==
    IF prog = "sort"
    THEN IF depth > MaxUint16
         THEN spc' = "panic" /\ UNCHANGED <<sorterBuf, sortIter, sortPos, sortedOut>>
         ELSE /\ sorterBuf' = Append(sorterBuf, SortData(depth, state))
              /\ UNCHANGED <<spc, sortIter, sortPos, sortedOut>>
    ELSE UNCHANGED sortVars

\* The call of trans[j].newState marks its state and starts its own loops.
EnumDescend(trans, j) ==
    /\ callStack' =
         Append([callStack EXCEPT ![Len(callStack)] =
                   [Top EXCEPT !.next = j,
                               !.maxChildDepth =
                                  MaxReturned(trans, Top.next, j, depthMap,
                                              Top.maxChildDepth)]],
                NewFrame(trans[j].newState))
    /\ inStack' = inStack \cup {ID(trans[j].newState)}
    /\ UNCHANGED <<epc, depthMap, emitted, sortVars>>

\* The loops of the innermost call have run to their end: the call sets the
\* depth, yields the pair, clears its bit and returns the depth to its caller.
EnumReturn(trans, j) ==
    \E depth \in {FinalDepth(MaxReturned(trans, Top.next, j, depthMap,
                                         Top.maxChildDepth))} :
    \E rest \in {SubSeq(callStack, 1, Len(callStack) - 1)} :
       /\ depthMap' = DepthSet(depthMap, ID(Top.state), depth)
       /\ emitted' = Append(emitted, [depth |-> depth, state |-> Top.state])
       /\ Yield(depth, Top.state)
       /\ inStack' = inStack \ {ID(Top.state)}
       /\ IF rest = <<>>
          THEN /\ callStack' = rest
               /\ epc' = "done"
          ELSE /\ callStack' =
                    [rest EXCEPT ![Len(rest)] =
                       [@ EXCEPT !.next = @ + 1,
                                 !.maxChildDepth = Max(@, depth)]]
               /\ epc' = epc

\* The loops of the innermost call run on, past every recursive call that
\* returns at once, to the next call that goes on to its own loops, or to
\* their end.
EnumStep ==
    /\ prog \in {"enumerate", "sort"}
    /\ epc = "running"
    /\ spc # "panic"
    /\ \E trans \in {Transitions(Top.state)} :
       \E j \in {NextToExpand(trans, Top.next, inStack, depthMap)} :
          \/ j <= Len(trans) /\ EnumDescend(trans, j)
          \/ j > Len(trans) /\ EnumReturn(trans, j)
    /\ UNCHANGED <<prog, rollOrder, pkgTables, numPlayers, updateVars, egVars, callVars, fileVars>>

NextEnum == EnumStart \/ EnumStep

\* The number of players the model plays with; the ids of three players do
\* not fit the integers of the model checker.
PlayerCounts == {1, 2}

IdleEnum ==
    /\ epc = "start"
    /\ callStack = <<>>
    /\ inStack = {}
    /\ depthMap = <<>>
    /\ emitted = <<>>

IdleSort ==
    /\ spc = "append"
    /\ sorterBuf = <<>>
    /\ sortIter = <<>>
    /\ sortPos = 0
    /\ sortedOut = <<>>

\* UpdateAll not yet called, or, with a stream, at its first line.
UpdateAt(atPc, table, states) ==
    /\ db = table
    /\ stream = states
    /\ upc = atPc
    /\ pos = 0
    /\ currentDepth = 0
    /\ chans = <<[buf |-> <<>>, closed |-> FALSE, depth |-> 0]>>
    /\ workers = <<>>
    /\ wg = 0
    /\ mx = [readers |-> {}, writer |-> {}]
    /\ putLog = <<>>

IdleUpdate == UpdateAt("idle", [prior |-> "fresh", puts |-> <<>>], <<>>)

IdleEndGame ==
    /\ egState = NewGameState(1)
    /\ egResult = <<>>

IdleCall ==
    /\ fnCall = [fn |-> "none", arg |-> 0]
    /\ fnResult = <<>>

\* No file at the path.
NoFile == [exists |-> FALSE, size |-> 0, fill |-> <<0, 0, 0, 0, 0, 0, 0, 0>>,
           bytes |-> <<>>]

\* The nil *FileDB.
NilDB == [mapped |-> FALSE, numPlayers |-> 0, mask |-> {}, nPuts |-> 0]

\* main before its first call, with the flag num_iter and whether there is a
\* file at the path of the games.
MainRun(numIter, games) ==
    [numIter |-> numIter, games |-> games, found |-> games, at |-> "stat",
     i |-> 0, calls |-> <<>>]

IdleFile ==
    /\ mainRun = MainRun(0, FALSE)
    /\ mpc = "start"
    /\ exitCode = 0
    /\ dbPath = NoFile
    /\ fileDB = NilDB
    /\ lastGet = <<>>
    /\ lastPut = <<>>
    /\ created = FALSE

\* allGameStates(numPlayers, workDir) with a fresh bit mask and depth map.
InitEnum ==
    /\ prog = "enumerate"
    /\ rollOrder \in RollOrders
    /\ pkgTables = PackageVars(rollOrder)
    /\ numPlayers \in PlayerCounts
    /\ IdleEnum /\ IdleSort /\ IdleUpdate /\ IdleEndGame /\ IdleCall /\ IdleFile

SpecEnum == InitEnum /\ [][NextEnum]_vars

\* EnumStep is enabled exactly while a call of recursiveEnumerateStates is
\* in its loops.
EnumCanStep == prog \in {"enumerate", "sort"} /\ epc = "running" /\ spc # "panic"

\* recursiveEnumerateStates runs in the goroutine of its caller, which goes
\* on as long as it has a step to take: weak fairness of EnumStart and of
\* EnumStep, the latter with its enabling condition written out.
SpecEnumFair ==
    /\ InitEnum
    /\ [][NextEnum]_vars
    /\ WF_vars(EnumStart)
    /\ ([]<>(~EnumCanStep) \/ []<><<EnumStep>>_vars)

(***************************************************************************)
(* SortedGameStates: gametree.go, 799-851.  The sorter is a library: what  *)
(* the model takes of it is that Sort() gives the appended records in an   *)
(* order in which no record is followed by one that Compare puts before    *)
(* it.  The order of records that compare equal is the library's: the      *)
(* model takes them as appended, or reversed.                              *)
(***************************************************************************)
TieOrders == {"appended", "reversed"}

Reverse(seq) == [i \in 1..Len(seq) |-> seq[Len(seq) + 1 - i]]

\* One record of each class of records that compare equal.
ClassHeads(buf) ==
    {i \in 1..Len(buf) :
       \A j \in 1..(i - 1) : compareGameStateDepth(buf[j], buf[i]) # 0}

\* The records in the sorter's order.
SortedBy(buf, tie) ==
    \* the classes, each with the number of classes Compare puts before it
    LET heads == ClassHeads(buf)
        rank  == [i \in heads |->
                    Cardinality({j \in heads :
                                   compareGameStateDepth(buf[j], buf[i]) < 0})]
    IN  Concat([k \in 1..Cardinality(heads) |->
                  LET head == buf[CHOOSE i \in heads : rank[i] = k - 1]
                      class == SelectSeq(buf, LAMBDA d :
                                           compareGameStateDepth(d, head) = 0)
                  IN  IF tie = "appended" THEN class ELSE Reverse(class)])

\* Lines 827-831: sorter.Sort(), once allGameStates has returned.
SortCall ==
    /\ prog = "sort"
    /\ epc = "done"
    /\ spc = "append"
    /\ \E tie \in TieOrders : sortIter' = SortedBy(sorterBuf, tie)
    /\ spc' = "iterate"
    /\ UNCHANGED <<sorterBuf, sortPos, sortedOut>>
    /\ UNCHANGED <<prog, rollOrder, pkgTables, numPlayers, enumVars, updateVars, egVars, callVars, fileVars>>

\* Lines 834-841: the iterator has a next record, which is yielded.
SortNext ==
    /\ prog = "sort"
    /\ spc = "iterate"
    /\ sortPos < Len(sortIter)
    /\ sortPos' = sortPos + 1
    /\ sortedOut' = Append(sortedOut,
                           [depth |-> GetUint16(sortIter[sortPos + 1]),
                            state |-> GameStateFromBytes(
                                        SubSeq(sortIter[sortPos + 1], 3,
                                               Len(sortIter[sortPos + 1])))])
    /\ UNCHANGED <<spc, sorterBuf, sortIter>>
    /\ UNCHANGED <<prog, rollOrder, pkgTables, numPlayers, enumVars, updateVars, egVars, callVars, fileVars>>

\* Lines 843-849: the iterator has no next record and is closed.
SortClose ==
    /\ prog = "sort"
    /\ spc = "iterate"
    /\ sortPos = Len(sortIter)
    /\ spc' = "closed"
    /\ UNCHANGED <<sorterBuf, sortIter, sortPos, sortedOut>>
    /\ UNCHANGED <<prog, rollOrder, pkgTables, numPlayers, enumVars, updateVars, egVars, callVars, fileVars>>

NextSort == EnumStart \/ EnumStep \/ SortCall \/ SortNext \/ SortClose

\* SortedGameStates(numPlayers, workDir), and the iterator it returns run to
\* its end.
InitSort ==
    /\ prog = "sort"
    /\ rollOrder \in RollOrders
    /\ pkgTables = PackageVars(rollOrder)
    /\ numPlayers \in PlayerCounts
    /\ IdleEnum /\ IdleSort /\ IdleUpdate /\ IdleEndGame /\ IdleCall /\ IdleFile

SpecSort == InitSort /\ [][NextSort]_vars

(***************************************************************************)
(* UpdateAll and updateWorker: gametree.go, 635-701.                       *)
(***************************************************************************)
\* A state of n players with the scores.
StateWith(n, scores, round, dice) ==
    [ScoreThisRound |-> round, NumDiceToRoll |-> dice, NumPlayers |-> n,
     PlayerScores |-> [i \in Slots |-> IF i <= n THEN scores[i] ELSE 0]]

\* runtime.NumCPU()
NumWorkers == 2
\* batchSize of updateWorker (1024 in the code).
BatchSize == 2

workCh == chans[Len(chans)]

\* wg.Wait() without the wait.
WaitReturnsAtOnce(counter) == TRUE

\* wg.Wait() returns when the counter is zero.
WaitReturns(counter) == counter = 0

\* close(workCh)
CloseWorkCh == [chans EXCEPT ![Len(chans)].closed = TRUE]

\* Lines 643-646: the next pair opens another depth; the channel is closed
\* and UpdateAll waits for the workers.
UpdateClose ==
    /\ prog = "update"
    /\ upc = "range"
    /\ pos < Len(stream)
    /\ stream[pos + 1].depth # currentDepth
    /\ chans' = CloseWorkCh
    /\ upc' = "wait"
    /\ UNCHANGED <<db, stream, pos, currentDepth, workers, wg, mx, putLog>>
    /\ UNCHANGED <<prog, rollOrder, pkgTables, numPlayers, enumVars, sortVars, egVars, callVars, fileVars>>

\* Lines 646-658: the wait is over; the workers of the next depth start.
UpdateStartWorkers ==
    /\ prog = "update"
    /\ upc = "wait"
    /\ WaitReturns(wg)
    /\ currentDepth' = stream[pos + 1].depth
    /\ chans' = Append(chans, [buf |-> <<>>, closed |-> FALSE,
                               depth |-> stream[pos + 1].depth])
    /\ wg' = wg + NumWorkers
    /\ workers' =
         [w \in DOMAIN workers \cup ({Len(chans) + 1} \X (1..NumWorkers)) |->
            IF w \in DOMAIN workers THEN workers[w]
            ELSE [pc |-> "recv", ch |-> Len(chans) + 1,
                  state |-> <<>>, batchIDs |-> <<>>, batchUpdates |-> <<>>]]
    /\ upc' = "send"
    /\ UNCHANGED <<db, stream, pos, mx, putLog>>
    /\ UNCHANGED <<prog, rollOrder, pkgTables, numPlayers, enumVars, sortVars, egVars, callVars, fileVars>>

\* Line 661: workCh <- state, when the channel has room.
UpdateSend ==
    /\ prog = "update"
    /\ pos < Len(stream)
    /\ \/ upc = "send"
       \/ upc = "range" /\ stream[pos + 1].depth = currentDepth
    /\ Len(workCh.buf) < NumWorkers
    /\ chans' = [chans EXCEPT ![Len(chans)].buf = Append(@, stream[pos + 1].state)]
    /\ pos' = pos + 1
    /\ upc' = "range"
    /\ UNCHANGED <<db, stream, currentDepth, workers, wg, mx, putLog>>
    /\ UNCHANGED <<prog, rollOrder, pkgTables, numPlayers, enumVars, sortVars, egVars, callVars, fileVars>>

\* Line 664: the stream is at its end.
UpdateCloseLast ==
    /\ prog = "update"
    /\ upc = "range"
    /\ pos = Len(stream)
    /\ chans' = CloseWorkCh
    /\ upc' = "lastwait"
    /\ UNCHANGED <<db, stream, pos, currentDepth, workers, wg, mx, putLog>>
    /\ UNCHANGED <<prog, rollOrder, pkgTables, numPlayers, enumVars, sortVars, egVars, callVars, fileVars>>

\* Line 665.
UpdateReturn ==
    /\ prog = "update"
    /\ upc = "lastwait"
    /\ WaitReturns(wg)
    /\ upc' = "done"
    /\ UNCHANGED <<db, stream, pos, currentDepth, chans, workers, wg, mx, putLog>>
    /\ UNCHANGED <<prog, rollOrder, pkgTables, numPlayers, enumVars, sortVars, egVars, callVars, fileVars>>

\* Lines 683-684 and the test of line 685 for the worker holding pWin.
Batched(worker, pWin) ==
    [worker EXCEPT
       !.batchIDs = Append(@, ID(worker.state)),
       !.batchUpdates = Append(@, pWin),
       !.pc = IF Len(worker.batchIDs) + 1 = BatchSize THEN "lock" ELSE "recv"]

\* Lines 673-678: the worker receives a state; the value of a finished game
\* needs no table.
WorkerReceive(w) ==
    /\ workers[w].pc = "recv"
    /\ chans[workers[w].ch].buf # <<>>
    /\ chans' = [chans EXCEPT ![workers[w].ch].buf = Tail(@)]
    /\ \E state \in {Head(chans[workers[w].ch].buf)} :
          workers' =
            [workers EXCEPT ![w] =
               IF IsGameOver(state)
               THEN Batched([@ EXCEPT !.state = state], calcEndGameValue(state))
               ELSE [@ EXCEPT !.state = state, !.pc = "rlock"]]
    /\ UNCHANGED <<db, stream, upc, pos, currentDepth, wg, mx, putLog>>

\* mx.RLock() returns while no writer holds the mutex.
CanRLock(m) == m.writer = {}

\* mx.Lock() that does not wait for the readers.
CanLockAmongReaders(m) == m.writer = {}

\* mx.Lock() returns while nobody holds the mutex.
CanLock(m) == m.writer = {} /\ m.readers = {}

\* Line 678: mx.RLock()
WorkerRLock(w) ==
    /\ workers[w].pc = "rlock"
    /\ CanRLock(mx)
    /\ mx' = [mx EXCEPT !.readers = @ \cup {w}]
    /\ workers' = [workers EXCEPT ![w].pc = "calc"]
    /\ UNCHANGED <<db, stream, upc, pos, currentDepth, chans, wg, putLog>>

\* Lines 679-685: calcStateValue, mx.RUnlock() and the two appends.
WorkerCalc(w) ==
    /\ workers[w].pc = "calc"
    /\ workers' = [workers EXCEPT
                     ![w] = Batched(@, calcStateValue(workers[w].state, db))]
    /\ mx' = [mx EXCEPT !.readers = @ \ {w}]
    /\ UNCHANGED <<db, stream, upc, pos, currentDepth, chans, wg, putLog>>

\* Lines 686 and 696: mx.Lock(), with the batch full or with the channel
\* closed and empty.
WorkerLock(w) ==
    /\ \/ workers[w].pc = "lock" /\ workers' = [workers EXCEPT ![w].pc = "put"]
       \/ /\ workers[w].pc = "recv"
          /\ chans[workers[w].ch].buf = <<>>
          /\ chans[workers[w].ch].closed
          /\ workers' = [workers EXCEPT ![w].pc = "lastput"]
    /\ CanLock(mx)
    /\ mx' = [mx EXCEPT !.writer = {w}]
    /\ UNCHANGED <<db, stream, upc, pos, currentDepth, chans, wg, putLog>>

\* The first Put of the batch alone.
PutAllFirst(table, batchIDs, batchUpdates, i) ==
    IF Len(batchIDs) = 0 THEN table
    ELSE dbPut(table, batchIDs[1], batchUpdates[1])

RECURSIVE PutAll(_, _, _, _)
\* db.Put(id, batchUpdates[i]) for the ids of the batch from the i-th on.
PutAll(table, batchIDs, batchUpdates, i) ==
    IF i > Len(batchIDs) THEN table
    ELSE PutAll(dbPut(table, batchIDs[i], batchUpdates[i]), batchIDs, batchUpdates,
                i + 1)

\* Lines 687-692: the Puts of a full batch and mx.Unlock().
WorkerPut(w) ==
    /\ workers[w].pc = "put"
    /\ db' = PutAll(db, workers[w].batchIDs, workers[w].batchUpdates, 1)
    /\ putLog' = putLog \o workers[w].batchIDs
    /\ mx' = [mx EXCEPT !.writer = {}]
    /\ workers' = [workers EXCEPT ![w].batchIDs = <<>>, ![w].batchUpdates = <<>>,
                                  ![w].pc = "recv"]
    /\ UNCHANGED <<stream, upc, pos, currentDepth, chans, wg>>

\* Lines 697-700 and 655: the last Puts, the deferred mx.Unlock(), the return
\* and wg.Done().
WorkerLastPut(w) ==
    /\ workers[w].pc = "lastput"
    /\ db' = PutAll(db, workers[w].batchIDs, workers[w].batchUpdates, 1)
    /\ putLog' = putLog \o workers[w].batchIDs
    /\ mx' = [mx EXCEPT !.writer = {}]
    /\ wg' = wg - 1
    /\ workers' = [v \in DOMAIN workers \ {w} |-> workers[v]]
    /\ UNCHANGED <<stream, upc, pos, currentDepth, chans>>

WorkerStep ==
    /\ prog = "update"
    /\ \E w \in DOMAIN workers :
          \/ WorkerReceive(w)
          \/ WorkerRLock(w)
          \/ WorkerCalc(w)
          \/ WorkerLock(w)
          \/ WorkerPut(w)
          \/ WorkerLastPut(w)
    /\ UNCHANGED <<prog, rollOrder, pkgTables, numPlayers, enumVars, sortVars, egVars, callVars, fileVars>>

NextUpdate ==
    \/ UpdateClose
    \/ UpdateStartWorkers
    \/ UpdateSend
    \/ UpdateCloseLast
    \/ UpdateReturn
    \/ WorkerStep

\* A state of the last turn of a two-player game: the player to move is one
\* point short of the win, or not on the board, and the other has the
\* saturated score, so that every stop and every farkle ends the game.
LastTurn(round, dice, score) ==
    StateWith(2, <<score, MaxUint8, 0, 0>>, round, dice)

\* Pairs of the stream of a two-player game, by rising depth, each with the
\* depth the enumerator gives its state: round scores from which every roll
\* leads to the end of the game or to a state of the pairs before, and a
\* state of a player not yet on the board.
LastTurnStream ==
    <<[depth |-> 1, state |-> LastTurn(MaxUint8, 1, scoreToWin - 1)],
      [depth |-> 1, state |-> LastTurn(MaxUint8, MaxNumDice, scoreToWin - 1)],
      [depth |-> 2, state |-> LastTurn(MaxUint8 - 1, 1, scoreToWin - 1)],
      [depth |-> 2, state |-> LastTurn(MaxUint8 - 1, 2, scoreToWin - 1)],
      [depth |-> 3, state |-> LastTurn(MaxUint8 - 2, 1, scoreToWin - 1)],
      [depth |-> 14, state |-> LastTurn(minOnBoard - 3, 1, 0)]>>

\* Pairs of the same game for a player with nothing banked, who has to roll
\* on until the round score has saturated: the value of each state is read by
\* the state of the next depth.
ChaseStream ==
    <<[depth |-> 1, state |-> LastTurn(MaxUint8, MaxNumDice, 0)],
      [depth |-> 2, state |-> LastTurn(MaxUint8 - 1, MaxNumDice, 0)],
      [depth |-> 3, state |-> LastTurn(MaxUint8 - 2, 1, 0)]>>

\* UpdateAll(db, states) on a table and a stream.
InitUpdate ==
    /\ prog = "update"
    /\ rollOrder \in RollOrders
    /\ pkgTables = PackageVars(rollOrder)
    /\ numPlayers = 2
    /\ \E prior \in Priors, states \in {LastTurnStream, ChaseStream} :
          UpdateAt("range", [prior |-> prior, puts |-> <<>>], states)
    /\ IdleEnum /\ IdleSort /\ IdleEndGame /\ IdleCall /\ IdleFile

SpecUpdate == InitUpdate /\ [][NextUpdate]_vars

\* A stream that opens with k finished games at depth 0, the depth of a
\* terminal state, followed by pairs of the depths 1 and 2.
ZeroFirst(k) ==
    [i \in 1..k |->
       [depth |-> 0,
        state |-> StateWith(2, <<scoreToWin + i - 1, 0, 0, 0>>, 0, MaxNumDice)]]
      \o SubSeq(LastTurnStream, 1, 3)

\* UpdateAll(db, states) on streams with and without pairs of depth 0.
InitUpdateAny ==
    /\ prog = "update"
    /\ rollOrder \in RollOrders
    /\ pkgTables = PackageVars(rollOrder)
    /\ numPlayers = 2
    /\ \E prior \in Priors, k \in 0..(NumWorkers + 1) :
          UpdateAt("range", [prior |-> prior, puts |-> <<>>], ZeroFirst(k))
    /\ IdleEnum /\ IdleSort /\ IdleEndGame /\ IdleCall /\ IdleFile

\* The steps of UpdateAll's own goroutine.
UpdateStep ==
    UpdateClose \/ UpdateStartWorkers \/ UpdateSend \/ UpdateCloseLast \/ UpdateReturn

\* The steps of the workers but the one that computes.
WorkerMove ==
    /\ prog = "update"
    /\ \E w \in DOMAIN workers :
          \/ WorkerReceive(w)
          \/ WorkerRLock(w)
          \/ WorkerLock(w)
          \/ WorkerPut(w)
          \/ WorkerLastPut(w)
    /\ UNCHANGED <<prog, rollOrder, pkgTables, numPlayers, enumVars, sortVars, egVars, callVars, fileVars>>

\* The step of a worker that computes; it is enabled exactly while a worker
\* is between mx.RLock() and mx.RUnlock().
WorkerCompute ==
    /\ prog = "update"
    /\ \E w \in DOMAIN workers : WorkerCalc(w)
    /\ UNCHANGED <<prog, rollOrder, pkgTables, numPlayers, enumVars, sortVars, egVars, callVars, fileVars>>

WorkerCanCompute ==
    prog = "update" /\ \E w \in DOMAIN workers : workers[w].pc = "calc"

\* The Go runtime runs every goroutine that is not blocked: weak fairness of
\* the steps of UpdateAll's goroutine, of the workers' steps and of their
\* computing, the last with its enabling condition written out.
SpecUpdateAny ==
    /\ InitUpdateAny
    /\ [][NextUpdate]_vars
    /\ WF_vars(UpdateStep)
    /\ WF_vars(WorkerMove)
    /\ ([]<>(~WorkerCanCompute) \/ []<><<WorkerCompute>>_vars)

\* The enumeration and the update, each on its own: the two users of the
\* game's rules.
SpecGame == (InitEnum \/ InitUpdate) /\ [][NextEnum \/ NextUpdate]_vars

(***************************************************************************)
(* calcEndGameValue called on a state.                                     *)
(***************************************************************************)
\* The banked scores the states are built from: none, on the board, one
\* short of the win, the win, and the saturated score.
SampleScores == {0, minOnBoard, scoreToWin - 1, scoreToWin, MaxUint8}

EndGameCall ==
    /\ prog = "endgame"
    /\ egResult = <<>>
    /\ egResult' = <<calcEndGameValue(egState)>>
    /\ UNCHANGED <<prog, rollOrder, pkgTables, numPlayers, egState, enumVars, sortVars, updateVars,
                   callVars, fileVars>>

NextEndGame == EndGameCall

InitEndGame ==
    /\ prog = "endgame"
    /\ rollOrder = "asc"
    /\ pkgTables = PackageVars(rollOrder)
    /\ numPlayers \in 1..maxNumPlayers
    /\ \E scores \in [Slots -> SampleScores] :
          egState = StateWith(numPlayers, scores, 0, MaxNumDice)
    /\ egResult = <<>>
    /\ IdleEnum /\ IdleSort /\ IdleUpdate /\ IdleCall /\ IdleFile

SpecEndGame == InitEndGame /\ [][NextEndGame]_vars

(***************************************************************************)
(* A function of the package called on its own, on one argument.           *)
(***************************************************************************)
\* The values the fields of the argument states take: the ends of the uint8
\* and, between them, 1 and the largest score of the game.
SampleFields == {0, 1, MaxUint8, ShiftLeft[numScoreBits] - 1}

\* The states the calls are made on, of the numbers of players whose ids fit.
SampleStates ==
    UNION {{StateWith(n, scores, round, dice) :
              scores \in [1..n -> SampleFields], round \in SampleFields,
              dice \in 1..MaxNumDice} : n \in PlayerCounts}

\* The call returns the value.
Returns(value) ==
    /\ fnResult = <<>>
    /\ fnResult' = <<value>>
    /\ UNCHANGED <<prog, rollOrder, pkgTables, numPlayers, fnCall>>
    /\ UNCHANGED <<enumVars, sortVars, updateVars, egVars, fileVars>>

CallID ==
    /\ prog = "call"
    /\ fnCall.fn = "ID"
    /\ Returns(ID(fnCall.arg))

CallCalcOffset ==
    /\ prog = "call"
    /\ fnCall.fn = "calcOffset"
    /\ Returns(calcOffset(fnCall.arg))

\* allRolls[nDice], as the package's initialisation left it.
CallAllRolls ==
    /\ prog = "call"
    /\ fnCall.fn = "allRolls"
    /\ Returns(pkgTables.allRolls[fnCall.arg])

\* nDistinctRolls of a game of so many dice.
CallNDistinctRolls ==
    /\ prog = "call"
    /\ fnCall.fn = "nDistinctRolls"
    /\ Returns(DistinctRollsUpTo(fnCall.arg))

\* CalculateScore(hold), the value scoreCache keeps for the hold's id.
CallCalculateScore ==
    /\ prog = "call"
    /\ fnCall.fn = "CalculateScore"
    /\ Returns(CalculateScore(fnCall.arg))

\* IsFarkle(roll): the roll's row of rollIDToPotentialHolds is empty.
CallIsFarkle ==
    /\ prog = "call"
    /\ fnCall.fn = "IsFarkle"
    /\ Returns(Len(potentialHolds(fnCall.arg)) = 0)

\* ToBytes: a buffer of NumPlayers + 3 bytes, filled by SerializeTo.
CallToBytes ==
    /\ prog = "call"
    /\ fnCall.fn = "ToBytes"
    /\ Returns(SerializeTo(fnCall.arg))

\* unrotate(pWin, numPlayers)
CallUnrotate ==
    /\ prog = "call"
    /\ fnCall.fn = "unrotate"
    /\ Returns(unrotate(fnCall.arg.pWin, fnCall.arg.n))

\* potentialHolds(roll), the roll's row of rollIDToPotentialHolds.
CallPotentialHolds ==
    /\ prog = "call"
    /\ fnCall.fn = "potentialHolds"
    /\ Returns(potentialHolds(fnCall.arg))

\* enumeratePossibleTricks(roll)
CallEnumeratePossibleTricks ==
    /\ prog = "call"
    /\ fnCall.fn = "enumeratePossibleTricks"
    /\ Returns(enumeratePossibleTricks(fnCall.arg))

\* Vectors whose slots hold 0, 1 or 2 quarters, the slots beyond the players
\* among them.
QuarterVectors == {[num |-> num, den |-> 4] : num \in [Slots -> 0..2]}

NextCalls ==
    \/ CallID
    \/ CallCalcOffset
    \/ CallAllRolls
    \/ CallNDistinctRolls
    \/ CallCalculateScore
    \/ CallIsFarkle
    \/ CallToBytes
    \/ CallUnrotate
    \/ CallPotentialHolds
    \/ CallEnumeratePossibleTricks

\* The rolls of up to FullNumDice dice.
FullRolls == {r \in [Faces -> 0..FullNumDice] : NumDice(r) <= FullNumDice}

\* Those that are a potential hold (of themselves, and so of some roll).
FullHolds == {r \in FullRolls : r \in Range(potentialHolds(r))}

\* States of 1 to maxNumPlayers players for the calls on bytes: each field at
\* either end of the uint8, the scores also at 1.
ByteStates ==
    UNION {{StateWith(n, scores, round, dice) :
              scores \in [1..n -> {0, 1, ByteWrap - 1}], round \in {0, ByteWrap - 1},
              dice \in {1, FullNumDice}} : n \in 1..maxNumPlayers}

InitCalls ==
    /\ prog = "call"
    /\ rollOrder \in RollOrders
    /\ pkgTables = PackageVars(rollOrder)
    /\ numPlayers = 1
    /\ \/ fnCall \in {[fn |-> "ID", arg |-> gs] : gs \in SampleStates}
       \/ fnCall \in {[fn |-> "calcOffset", arg |-> gs] : gs \in SampleStates}
       \/ fnCall \in {[fn |-> "allRolls", arg |-> nDice] : nDice \in 0..MaxNumDice}
       \/ fnCall \in {[fn |-> "nDistinctRolls", arg |-> maxDice] :
                         maxDice \in 0..FullNumDice}
       \/ fnCall \in {[fn |-> "CalculateScore", arg |-> hold] : hold \in FullHolds}
       \/ fnCall \in {[fn |-> "IsFarkle", arg |-> roll] : roll \in FullRolls}
       \/ fnCall \in {[fn |-> "ToBytes", arg |-> gs] : gs \in ByteStates}
       \/ fnCall \in {[fn |-> "unrotate", arg |-> [pWin |-> pWin, n |-> n]] :
                         pWin \in QuarterVectors, n \in Slots}
       \/ fnCall \in {[fn |-> "potentialHolds", arg |-> roll] : roll \in FullRolls}
       \/ fnCall \in {[fn |-> "enumeratePossibleTricks", arg |-> roll] :
                         roll \in FullRolls}
    /\ fnResult = <<>>
    /\ IdleEnum /\ IdleSort /\ IdleUpdate /\ IdleEndGame /\ IdleFile

SpecCalls == InitCalls /\ [][NextCalls]_vars

(***************************************************************************)
(* FileDB and the main of solve-farkle: db.go, 223-363, and                *)
(* cmd/solve-farkle/main.go, 21-65.  A float64 is the eight bytes of its   *)
(* bits, the most significant first.  A file is its size and its bytes:    *)
(* those written one by one (bytes) and, everywhere else, eight bytes that *)
(* repeat from offset 0 on (fill).                                         *)
(***************************************************************************)
FloatZero == <<0, 0, 0, 0, 0, 0, 0, 0>>
FloatOne == <<63, 240, 0, 0, 0, 0, 0, 0>>
FloatHalf == <<63, 224, 0, 0, 0, 0, 0, 0>>
FloatThird == <<63, 213, 85, 85, 85, 85, 85, 85>>
FloatQuarter == <<63, 208, 0, 0, 0, 0, 0, 0>>

\* 1.0 / float64(numPlayers)
InverseOf == <<FloatOne, FloatHalf, FloatThird, FloatQuarter>>

\* binary.LittleEndian.PutUint64(buf, math.Float64bits(p)): the bytes of buf.
PutUint64(p) == [j \in 1..8 |-> p[9 - j]]

\* math.Float64frombits(binary.LittleEndian.Uint64(buf))
Uint64(buf) == [j \in 1..8 |-> buf[9 - j]]

\* fileSize of NewFileDB, lines 234-236.
FileSize(n) == 8 * (n * calcNumDistinctStates(n))

ByteAt(file, o) ==
    IF o \in DOMAIN file.bytes THEN file.bytes[o] ELSE file.fill[(o % 8) + 1]

\* The file initDB leaves: numStates records of numPlayers times the bytes of
\* 1/numPlayers.
initDB(numStates, n) ==
    [exists |-> TRUE, size |-> 8 * n * numStates,
     fill |-> PutUint64(InverseOf[n]), bytes |-> <<>>]

\* The test of line 252 never taken.
SizeMismatchNever(stat, fileSize) == FALSE

\* Line 252.
SizeMismatch(stat, fileSize) == stat.size # fileSize

\* NewFileDB(path, numPlayers): the file at the path afterwards, the *FileDB
\* and whether an error is returned.
NewFileDB(file, n) ==
    IF ~file.exists
    THEN [file |-> initDB(calcNumDistinctStates(n), n),
          db |-> [mapped |-> TRUE, numPlayers |-> n, mask |-> {}, nPuts |-> 0],
          err |-> FALSE, created |-> TRUE]
    ELSE IF SizeMismatch(file, FileSize(n))
    THEN [file |-> file, db |-> NilDB, err |-> TRUE, created |-> FALSE]
    ELSE [file |-> file,
          db |-> [mapped |-> TRUE, numPlayers |-> n, mask |-> {}, nPuts |-> 0],
          err |-> FALSE, created |-> FALSE]

\* idx of Put and Get with one float64 to a record.
RecordIdxOfOneSlot(fdb, gs) == 8 * calcOffset(gs)

\* idx of Put and Get, lines 299-300 and 321-322.
RecordIdx(fdb, gs) == 8 * fdb.numPlayers * calcOffset(gs)

\* The offsets Put writes: eight bytes for each of the first gs.NumPlayers
\* values of pWin.
PutOffsets(fdb, gs) ==
    {RecordIdx(fdb, gs) + k : k \in 0..(8 * gs.NumPlayers - 1)}

\* The bytes of the file after Put(gs, pWin).
Put(fdb, file, gs, pWin) ==
    [o \in DOMAIN file.bytes \cup PutOffsets(fdb, gs) |->
       IF o \in PutOffsets(fdb, gs)
       THEN PutUint64(pWin[((o - RecordIdx(fdb, gs)) \div 8) + 1])
              [((o - RecordIdx(fdb, gs)) % 8) + 1]
       ELSE file.bytes[o]]

\* Get(gs): the vector and whether the state was Put.
Get(fdb, file, gs) ==
    [result |->
       [i \in Slots |->
          IF i <= fdb.numPlayers
          THEN Uint64([j \in 1..8 |->
                         ByteAt(file, RecordIdx(fdb, gs) + 8 * (i - 1) + j - 1)])
          ELSE FloatZero],
     isSet |-> calcOffset(gs) \in fdb.mask]

\* The number of Puts of a run of the model.
MaxPuts == 2

\* The states the table is Put and got at: among them states whose records
\* are next to each other in the file.
DBStates(n) ==
    {StateWith(n, [i \in 1..n |-> IF i = 1 THEN score ELSE 0], turn[1], turn[2]) :
       score \in {0, 1}, turn \in {<<0, 1>>, <<1, MaxNumDice>>}}

\* The vectors Put.
SampleVectors ==
    {<<FloatOne, FloatZero, FloatZero, FloatZero>>,
     <<FloatQuarter, FloatThird, FloatHalf, FloatOne>>}

\* main, lines 34-38.
MainOpen ==
    /\ prog = "solve"
    /\ mpc = "start"
    /\ \E r \in {NewFileDB(dbPath, numPlayers)} :
          /\ dbPath' = r.file
          /\ fileDB' = r.db
          /\ created' = r.created
          /\ IF r.err
             THEN mpc' = "exited" /\ exitCode' = 1
             ELSE mpc' = "open" /\ exitCode' = exitCode
    /\ mainRun' = [mainRun EXCEPT !.calls = Append(@, "NewFileDB")]
    /\ UNCHANGED <<lastGet, lastPut>>
    /\ UNCHANGED <<prog, rollOrder, pkgTables, numPlayers>>
    /\ UNCHANGED <<enumVars, sortVars, updateVars, egVars, callVars>>

\* A Put of a pass of UpdateAll, lines 298-318.
FileDBPut ==
    /\ prog = "solve"
    /\ mpc = "open"
    /\ mainRun.at = "pass"
    /\ fileDB.nPuts < MaxPuts
    /\ \E gs \in DBStates(numPlayers), pWin \in SampleVectors :
          /\ dbPath' = [dbPath EXCEPT !.bytes = Put(fileDB, dbPath, gs, pWin)]
          /\ fileDB' = [fileDB EXCEPT !.mask = @ \cup {calcOffset(gs)},
                                      !.nPuts = @ + 1]
          /\ lastPut' = [t \in DOMAIN lastPut \cup {gs} |->
                           IF t = gs THEN pWin ELSE lastPut[t]]
    /\ UNCHANGED <<mpc, exitCode, lastGet, created, mainRun>>
    /\ UNCHANGED <<prog, rollOrder, pkgTables, numPlayers>>
    /\ UNCHANGED <<enumVars, sortVars, updateVars, egVars, callVars>>

\* A Get of a pass of UpdateAll, lines 320-336.
FileDBGet ==
    /\ prog = "solve"
    /\ mpc = "open"
    /\ mainRun.at = "pass"
    /\ \E gs \in DBStates(numPlayers) :
          lastGet' = <<[state |-> gs] @@ Get(fileDB, dbPath, gs)>>
    /\ UNCHANGED <<mpc, exitCode, dbPath, fileDB, lastPut, created, mainRun>>
    /\ UNCHANGED <<prog, rollOrder, pkgTables, numPlayers>>
    /\ UNCHANGED <<enumVars, sortVars, updateVars, egVars, callVars>>

\* main, lines 40-47: with no file of games, the states are enumerated,
\* sorted and saved; SaveGameStates may fail.
MainGames ==
    /\ prog = "solve"
    /\ mpc = "open"
    /\ mainRun.at = "stat"
    /\ IF mainRun.games
       THEN /\ mainRun' = [mainRun EXCEPT !.at = "loop"]
            /\ UNCHANGED <<mpc, exitCode>>
       ELSE \E err \in BOOLEAN :
              /\ mainRun' = [mainRun EXCEPT
                                !.calls = @ \o <<"SortedGameStates", "SaveGameStates">>,
                                !.games = ~err,
                                !.at = IF err THEN "stat" ELSE "loop"]
              /\ mpc' = IF err THEN "exited" ELSE mpc
              /\ exitCode' = IF err THEN 1 ELSE exitCode
    /\ UNCHANGED <<dbPath, fileDB, lastGet, lastPut, created>>
    /\ UNCHANGED <<prog, rollOrder, pkgTables, numPlayers>>
    /\ UNCHANGED <<enumVars, sortVars, updateVars, egVars, callVars>>

\* The condition of the loop of line 49, one pass made.
LoopGoesOnOnce(i, numIter) == i < 1

\* The condition of the loop of line 49.
LoopGoesOn(i, numIter) == i < numIter

\* main, lines 49-56: the stream of the games is opened, which may fail, and
\* handed to UpdateAll.
MainIter ==
    /\ prog = "solve"
    /\ mpc = "open"
    /\ mainRun.at = "loop"
    /\ LoopGoesOn(mainRun.i, mainRun.numIter)
    /\ \E err \in BOOLEAN :
          /\ mainRun' = [mainRun EXCEPT
                            !.calls = Append(@, "IterGameStates"),
                            !.at = IF err THEN "loop" ELSE "pass"]
          /\ mpc' = IF err THEN "exited" ELSE mpc
          /\ exitCode' = IF err THEN 1 ELSE exitCode
    /\ UNCHANGED <<dbPath, fileDB, lastGet, lastPut, created>>
    /\ UNCHANGED <<prog, rollOrder, pkgTables, numPlayers>>
    /\ UNCHANGED <<enumVars, sortVars, updateVars, egVars, callVars>>

\* main, lines 56-58: UpdateAll returns, and the value of the initial state
\* is read and logged.
MainPassDone ==
    /\ prog = "solve"
    /\ mpc = "open"
    /\ mainRun.at = "pass"
    /\ mainRun' = [mainRun EXCEPT !.calls = @ \o <<"UpdateAll", "Get">>,
                                  !.at = "loop", !.i = @ + 1]
    /\ lastGet' = <<[state |-> NewGameState(numPlayers)]
                      @@ Get(fileDB, dbPath, NewGameState(numPlayers))>>
    /\ UNCHANGED <<mpc, exitCode, dbPath, fileDB, lastPut, created>>
    /\ UNCHANGED <<prog, rollOrder, pkgTables, numPlayers>>
    /\ UNCHANGED <<enumVars, sortVars, updateVars, egVars, callVars>>

\* main, lines 61-65, and Close, lines 352-363.
MainClose ==
    /\ prog = "solve"
    /\ mpc = "open"
    /\ mainRun.at = "loop"
    /\ ~LoopGoesOn(mainRun.i, mainRun.numIter)
    /\ mpc' = "exited"
    /\ fileDB' = NilDB
    /\ mainRun' = [mainRun EXCEPT !.calls = Append(@, "Close")]
    /\ UNCHANGED <<exitCode, dbPath, lastGet, lastPut, created>>
    /\ UNCHANGED <<prog, rollOrder, pkgTables, numPlayers>>
    /\ UNCHANGED <<enumVars, sortVars, updateVars, egVars, callVars>>

NextSolve ==
    \/ MainOpen
    \/ MainGames
    \/ MainIter
    \/ FileDBPut
    \/ FileDBGet
    \/ MainPassDone
    \/ MainClose

\* The most passes the flag num_iter asks for.
MaxIter == 2

\* The files main may find at the path: none, an empty one, one of the size
\* of a table of 1 or of 2 players, of zeros or of what initDB writes.
FilesAtPath ==
    {NoFile}
      \cup {[exists |-> TRUE, size |-> size, fill |-> fill, bytes |-> <<>>] :
              size \in {0} \cup {FileSize(n) : n \in PlayerCounts},
              fill \in {FloatZero} \cup {PutUint64(InverseOf[n]) : n \in PlayerCounts}}

\* The runs of main: one pass over the file of games with each file at the
\* path of the table, and each number of passes, with and without a file of
\* games, with no file at the path of the table.
InitSolve ==
    /\ prog = "solve"
    /\ rollOrder = "asc"
    /\ pkgTables = PackageVars(rollOrder)
    /\ \/ /\ numPlayers \in PlayerCounts
          /\ dbPath \in FilesAtPath
          /\ mainRun = MainRun(1, TRUE)
       \/ /\ numPlayers = 1
          /\ dbPath = NoFile
          /\ mainRun \in {MainRun(numIter, games) :
                             numIter \in 0..MaxIter, games \in BOOLEAN}
    /\ mpc = "start"
    /\ exitCode = 0
    /\ fileDB = NilDB
    /\ lastGet = <<>>
    /\ lastPut = <<>>
    /\ created = FALSE
    /\ IdleEnum /\ IdleSort /\ IdleUpdate /\ IdleEndGame /\ IdleCall

SpecSolve == InitSolve /\ [][NextSolve]_vars

(***************************************************************************)
(* The enumerator's properties.                                            *)
(***************************************************************************)
emittedStates == {emitted[i].state : i \in 1..Len(emitted)}

LastEmitted == emitted[Len(emitted)]

\* The states one legal (roll, action) transition away from state.
Successors(state) ==
    UNION {{trans[i].newState : i \in 1..Len(trans)} :
             trans \in {Transitions(state)}}

RECURSIVE ReachableFrom(_, _)
\* The non-terminal states reachable from the states of frontier through
\* non-terminal states, seen being those found so far.
ReachableFrom(seen, frontier) ==
    IF frontier = {} THEN seen
    ELSE ReachableFrom(
           seen \cup {t \in UNION {Successors(s) : s \in frontier} :
                        ~IsGameOver(t)},
           {t \in UNION {Successors(s) : s \in frontier} : ~IsGameOver(t)} \ seen)

ReachableNonTerminal(n) ==
    ReachableFrom({s \in {NewGameState(n)} : ~IsGameOver(s)},
                  {s \in {NewGameState(n)} : ~IsGameOver(s)})

\* C1: the enumerator yields no state more than once (every pair it yields
\* carries a state that none of the earlier pairs carries), and when it has
\* returned, the states it yielded are the non-terminal states reachable from
\* NewGameState(numPlayers) by legal (roll, action) transitions.
C1_YieldsReachableOnce ==
    prog = "enumerate" =>
      /\ Len(emitted) > 0 =>
           \A i \in 1..(Len(emitted) - 1) : emitted[i].state # LastEmitted.state
      /\ epc = "done" => emittedStates = ReachableNonTerminal(numPlayers)

\* The enumerator has returned from a graph with a cycle: some state it yielded
\* is its own successor (a farkle leaves a player without points where he was).
C1_Witness ==
    /\ prog = "enumerate"
    /\ epc = "done"
    /\ Len(emitted) > 1
    /\ NewGameState(numPlayers) \in Successors(NewGameState(numPlayers))
    /\ NewGameState(numPlayers) \in emittedStates

\* C2: a terminal state the enumerator reaches is yielded with depth 0: when a
\* state has been yielded, each of its terminal successors is in the emitted
\* sequence with depth 0.
C2_TerminalYielded ==
    (prog = "enumerate" /\ Len(emitted) > 0) =>
      \A t \in Successors(LastEmitted.state) :
         IsGameOver(t) =>
           \E i \in 1..Len(emitted) : emitted[i] = [depth |-> 0, state |-> t]

\* The depth the enumerator ends with for a state: 0 for a terminal state,
\* and what the depth map holds for another.
FinalDepthOf(t) == IF IsGameOver(t) THEN 0 ELSE DepthGet(depthMap, ID(t))

C8_EndGameValue ==
    (prog = "endgame" /\ egResult # <<>>) =>
      LET n == egState.NumPlayers
          W == {p \in 1..n : \A q \in 1..n :
                  egState.PlayerScores[q] <= egState.PlayerScores[p]}
          v == egResult[1]
      IN  /\ \A i \in Slots :
               /\ i \in W => v.num[i] * Cardinality(W) = v.den
               /\ i \notin W => v.num[i] = 0
          /\ v.den > 0
          /\ SumSeq([i \in Slots |-> v.num[i]]) = v.den

\* calcEndGameValue has returned for a state of three players in which two
\* tie for the highest score and the player to move is not one of them.
C8_Witness ==
    /\ prog = "endgame"
    /\ egResult # <<>>
    /\ egState.NumPlayers = 3
    /\ egState.PlayerScores[1] < egState.PlayerScores[2]
    /\ egState.PlayerScores[2] = egState.PlayerScores[3]
    /\ egResult[1].num = <<0, 1, 1, 0>>
    /\ egResult[1].den = 2

WorkerDepth(w) == chans[workers[w].ch].depth

\* The workers that hold a state whose value they are about to compute.
Computing == {w \in DOMAIN workers : workers[w].pc \in {"rlock", "calc"}}

\* C5: when a worker holds a state of a depth group to compute, every worker
\* alive is of that group (those of the groups before have flushed their
\* Puts and returned), and every state of a lower depth in the stream has been
\* Put since UpdateAll was called and is in the table with that value.
C5_DepthBarrier ==
    prog = "update" =>
      \A w \in Computing :
         /\ \A v \in DOMAIN workers : workers[v].ch = workers[w].ch
         /\ \A i \in 1..Len(stream) :
               stream[i].depth < WorkerDepth(w) =>
                 /\ \E k \in 1..Len(putLog) : putLog[k] = ID(stream[i].state)
                 /\ ID(stream[i].state) \in DOMAIN db.puts

\* A worker computes a state of the third depth group, which reads the values
\* Put for the groups before.
C5_Witness ==
    /\ prog = "update"
    /\ \E w \in DOMAIN workers :
          /\ workers[w].pc = "calc"
          /\ Cardinality({stream[i].depth : i \in 1..Len(stream)}
                           \cap 1..(WorkerDepth(w) - 1)) >= 2
          /\ Len(putLog) >= 2

\* Every record of the table that the value of the state is computed from
\* gives the first numPlayers slots a distribution.
ReadsDistributions(state) ==
    \A t \in Successors(state) :
       IsDistribution(dbGet(db, ID(t), numPlayers), numPlayers)

\* C6: the vector a worker computes for a non-terminal state from a table
\* whose records each sum to 1 over the first numPlayers slots has its
\* components in [0, 1] and they sum to 1.
C6_ComputedIsDistribution ==
    prog = "update" =>
      \A w \in DOMAIN workers :
         (/\ workers[w].pc = "calc"
          /\ ~IsGameOver(workers[w].state)
          /\ ReadsDistributions(workers[w].state)) =>
           IsDistribution(calcStateValue(workers[w].state, db), numPlayers)

\* C7: when UpdateAll has returned, the table record of every terminal state
\* (here, those the states of the stream lead to) is calcEndGameValue of it.
C7_TerminalsHoldEndGameValue ==
    (prog = "update" /\ upc = "done") =>
      \A i \in 1..Len(stream) :
         \A t \in Successors(stream[i].state) :
            IsGameOver(t) =>
              dbGet(db, ID(t), numPlayers) = calcEndGameValue(t)

\* The potential actions of the roll that are not skipped in the state, as
\* the loop takes them, each with the table value of its new state
\* (unrotated for a stop).
LegalValues(state, rollID, table) ==
    LET potentialActions == pkgTables.rollIDToPotentialActions[rollID]
        taken == [k \in 1..Len(potentialActions) |->
                    OverflowStop(state, potentialActions[k])]
    IN  SelectSeq(
          [k \in 1..Len(potentialActions) |->
             [action |-> taken[k],
              skipped |->
                 /\ state.PlayerScores[1] = 0
                 /\ ~taken[k].ContinueRolling
                 /\ ApplyAction(state, taken[k]).PlayerScores[state.NumPlayers]
                      < minOnBoard,
              u |-> IF taken[k].ContinueRolling
                    THEN dbGet(table, ID(ApplyAction(state, taken[k])),
                               state.NumPlayers)
                    ELSE unrotate(dbGet(table, ID(ApplyAction(state, taken[k])),
                                        state.NumPlayers),
                                  state.NumPlayers)]],
          LAMBDA e : ~e.skipped)

\* The rolls of as many dice as the state has to roll that are no farkle.
ScoringRollIDs(state) ==
    {pkgTables.allRolls[state.NumDiceToRoll][r].ID :
       r \in 1..Len(pkgTables.allRolls[state.NumDiceToRoll])}
      \cap {id \in RollIDs : Len(pkgTables.rollIDToPotentialActions[id]) > 0}

\* C9: for a state a worker computes and a roll with potential actions, the
\* vector SelectAction returns is at least, in slot 0, the value of every
\* legal potential action, and the action it returns is the first legal
\* potential action whose value attains the maximum.
C9_FirstMaximalAction ==
    prog = "update" =>
      \A w \in DOMAIN workers :
         workers[w].pc = "calc" =>
           \A rollID \in ScoringRollIDs(workers[w].state) :
              \E legal \in {LegalValues(workers[w].state, rollID, db)} :
              \E got \in {SelectAction(workers[w].state, rollID, db)} :
                 /\ \A k \in 1..Len(legal) : ~Greater(legal[k].u, got.bestWinProb, 1)
                 /\ Len(legal) > 0 =>
                      \E k \in 1..Len(legal) :
                         /\ got.bestAction = legal[k].action
                         /\ got.bestWinProb = legal[k].u
                         /\ \A j \in 1..Len(legal) : ~Greater(legal[j].u, legal[k].u, 1)
                         /\ \A j \in 1..(k - 1) : Greater(legal[k].u, legal[j].u, 1)

\* The stops of the roll's potential actions that would bank less than 500
\* points for the player of the state, who has none.
StopsBelowMinimum(state, rollID) ==
    {a \in {OverflowStop(state, pkgTables.rollIDToPotentialActions[rollID][k]) :
              k \in 1..Len(pkgTables.rollIDToPotentialActions[rollID])} :
       /\ state.PlayerScores[1] = 0
       /\ ~a.ContinueRolling
       /\ ApplyAction(state, a).PlayerScores[state.NumPlayers] < minOnBoard}

\* C10: a stop that would bank less than 500 points for a player who has
\* none is skipped.  SelectAction neither looks its new state up nor returns
\* it, for any state a worker computes and any roll; and the enumerator does
\* not go from a state to the new state of such a stop (the call on top of the
\* stack was not made for one).
C10_FirstOnBoard ==
    /\ prog = "update" =>
         \A w \in DOMAIN workers :
            workers[w].pc = "calc" =>
              \A rollID \in ScoringRollIDs(workers[w].state) :
                 \E got \in {SelectAction(workers[w].state, rollID, db)} :
                    \A a \in StopsBelowMinimum(workers[w].state, rollID) :
                       /\ got.bestAction # a
                       /\ \A k \in 1..Len(got.evaluated) : got.evaluated[k] # a
    /\ (prog = "enumerate" /\ Len(callStack) >= 2) =>
         \E from \in {callStack[Len(callStack) - 1]} :
         \E made \in {Transitions(from.state)[from.next]} :
            /\ made.newState = Top.state
            /\ made.farkle
                 \/ made.action \notin StopsBelowMinimum(from.state, made.rollID)

\* A worker computes a state of a player not on the board, one roll of which
\* has a stop below the minimum; SelectAction evaluates the roll's other
\* actions.
C10_Witness ==
    /\ prog = "update"
    /\ \E w \in DOMAIN workers :
          /\ workers[w].pc = "calc"
          /\ \E rollID \in ScoringRollIDs(workers[w].state) :
                /\ StopsBelowMinimum(workers[w].state, rollID) # {}
                /\ Len(SelectAction(workers[w].state, rollID, db).evaluated) > 0

(***************************************************************************)
(* The actions and their effect on the state.                              *)
(***************************************************************************)
\* The rolls of as many dice as the state has to roll that are a farkle.
FarkleRollIDs(state) ==
    {pkgTables.allRolls[state.NumDiceToRoll][r].ID :
       r \in 1..Len(pkgTables.allRolls[state.NumDiceToRoll])}
      \cap {id \in RollIDs : Len(pkgTables.rollIDToPotentialActions[id]) = 0}

\* The state after a farkle: the turn passes, the player banks nothing.
AfterFarkle(state) ==
    [ScoreThisRound |-> 0, NumDiceToRoll |-> MaxNumDice,
     NumPlayers |-> state.NumPlayers,
     PlayerScores |->
        [i \in Slots |->
           IF i < state.NumPlayers THEN state.PlayerScores[i + 1]
           ELSE IF i = state.NumPlayers THEN state.PlayerScores[1]
           ELSE state.PlayerScores[i]]]

\* C11: for a state a worker computes and a farkle roll, SelectAction returns
\* the farkle action (held dice id 0, no continue) and the table value of the
\* state after the farkle moved by one position: the value of the player who
\* plays last there (the one who farkled) in slot 0, and that of every other
\* player one slot later than the table has it.
C11_FarkleRoll ==
    prog = "update" =>
      \A w \in DOMAIN workers :
         workers[w].pc = "calc" =>
           \A rollID \in FarkleRollIDs(workers[w].state) :
              \E got \in {SelectAction(workers[w].state, rollID, db)} :
              \E v \in {dbGet(db, ID(AfterFarkle(workers[w].state)), numPlayers)} :
                 /\ got.bestAction = [HeldDiceID |-> 0, ContinueRolling |-> FALSE]
                 /\ got.bestWinProb.den = v.den
                 /\ got.bestWinProb.num[1] = v.num[numPlayers]
                 /\ \A i \in 2..numPlayers :
                       got.bestWinProb.num[i] = v.num[i - 1]

\* A worker computes a state of two players with a farkle roll, and the table
\* gives the two players different values in the state after the farkle.
C11_Witness ==
    /\ prog = "update"
    /\ numPlayers = 2
    /\ \E w \in DOMAIN workers :
          /\ workers[w].pc = "calc"
          /\ FarkleRollIDs(workers[w].state) # {}
          /\ \E v \in {dbGet(db, ID(AfterFarkle(workers[w].state)), numPlayers)} :
                v.num[1] # v.num[2]

\* The actions the state's rolls offer: the potential actions of every roll of
\* as many dice as the state has to roll, and the farkle action.
ActionsAt(state) ==
    {pkgTables.rollActions[state.NumDiceToRoll][k].action :
       k \in 1..Len(pkgTables.rollActions[state.NumDiceToRoll])}

\* The sum of two scores, held at the largest score.
SaturatingSum(a, b) == IF a + b > MaxUint8 THEN MaxUint8 ELSE a + b

\* The round score once the held dice are scored: nothing after a farkle.
RoundScoreWith(state, action) ==
    IF action.HeldDiceID = 0 THEN 0
    ELSE SaturatingSum(state.ScoreThisRound,
                       pkgTables.scoreCache[action.HeldDiceID])

\* C12: for a state the enumerator expands and a stop its rolls offer (the
\* farkle action among them), ApplyAction keeps the number of players, moves
\* the scores of the players after the first one slot down, gives the last
\* slot the saturating sum of the first player's score and the round score
\* with the held dice (0 after a farkle), clears the round score and gives
\* all dice to roll.
C12_StopAction ==
    (prog = "enumerate" /\ callStack # <<>>) =>
      \A a \in ActionsAt(Top.state) :
         ~a.ContinueRolling =>
           \E t \in {ApplyAction(Top.state, a)} :
              /\ t.NumPlayers = Top.state.NumPlayers
              /\ \A i \in 1..(numPlayers - 1) :
                    t.PlayerScores[i] = Top.state.PlayerScores[i + 1]
              /\ t.PlayerScores[numPlayers] =
                    SaturatingSum(Top.state.PlayerScores[1],
                                  RoundScoreWith(Top.state, a))
              /\ t.ScoreThisRound = 0
              /\ t.NumDiceToRoll = MaxNumDice

\* The enumerator expands a state of two players with different scores, a
\* stop of which banks more than the largest score; and the farkle action is
\* among its actions.
C12_Witness ==
    /\ prog = "enumerate"
    /\ callStack # <<>>
    /\ numPlayers = 2
    /\ Top.state.PlayerScores[1] # Top.state.PlayerScores[2]
    /\ FarkleAction \in ActionsAt(Top.state)
    /\ \E a \in ActionsAt(Top.state) :
          /\ ~a.ContinueRolling
          /\ a.HeldDiceID # 0
          /\ Top.state.PlayerScores[1] + RoundScoreWith(Top.state, a) > MaxUint8

\* C13: for a state the enumerator expands and a continue its rolls offer,
\* ApplyAction leaves the players' scores and their number, adds the score of
\* the held dice to the round score, saturating, and takes the held dice from
\* the dice to roll, giving all dice when none is left.
C13_ContinueAction ==
    (prog = "enumerate" /\ callStack # <<>>) =>
      \A a \in ActionsAt(Top.state) :
         a.ContinueRolling =>
           \E t \in {ApplyAction(Top.state, a)} :
           \E left \in {Top.state.NumDiceToRoll
                           - pkgTables.rollNumDice[a.HeldDiceID]} :
              /\ t.PlayerScores = Top.state.PlayerScores
              /\ t.NumPlayers = Top.state.NumPlayers
              /\ t.ScoreThisRound =
                    SaturatingSum(Top.state.ScoreThisRound,
                                  pkgTables.scoreCache[a.HeldDiceID])
              /\ t.NumDiceToRoll = IF left = 0 THEN MaxNumDice ELSE left

\* The enumerator expands a state one continue of which holds all dice left
\* and another of which takes the round score past the largest score.
C13_Witness ==
    /\ prog = "enumerate"
    /\ callStack # <<>>
    /\ \E a \in ActionsAt(Top.state) :
          /\ a.ContinueRolling
          /\ pkgTables.rollNumDice[a.HeldDiceID] = Top.state.NumDiceToRoll
    /\ \E a \in ActionsAt(Top.state) :
          /\ a.ContinueRolling
          /\ Top.state.ScoreThisRound + pkgTables.scoreCache[a.HeldDiceID]
                > MaxUint8

(***************************************************************************)
(* The ids of the states and the value table.                              *)
(***************************************************************************)
\* C14: the id of a state is the id of no other state of as many players
\* (among the states whose fields are a byte each and whose dice are 1 to
\* MaxNumDice), is at least 0 and is less than calcNumDistinctStates.
C14_IDInjective ==
    (prog = "call" /\ fnCall.fn = "ID" /\ fnResult # <<>>) =>
      /\ \A other \in SampleStates :
            (other.NumPlayers = fnCall.arg.NumPlayers /\ other # fnCall.arg)
               => ID(other) # fnResult[1]
      /\ fnResult[1] >= 0
      /\ fnResult[1] < calcNumDistinctStates(fnCall.arg.NumPlayers)

\* ID has returned for a state of two players with all dice to roll whose
\* fields are all the largest byte: the largest id of two players.
C14_Witness ==
    /\ prog = "call"
    /\ fnCall.fn = "ID"
    /\ fnResult # <<>>
    /\ fnCall.arg.NumPlayers = 2
    /\ fnCall.arg.NumDiceToRoll = MaxNumDice
    /\ fnCall.arg.ScoreThisRound = ShiftLeft[numScoreBits] - 1
    /\ \A i \in 1..2 : fnCall.arg.PlayerScores[i] = ShiftLeft[numScoreBits] - 1
    /\ fnResult[1] = calcNumDistinctStates(2) - 1

\* C15: the record index the table computes for a state is the state's ID.
C15_OffsetIsID ==
    (prog = "call" /\ fnCall.fn = "calcOffset" /\ fnResult # <<>>) =>
      fnResult[1] = ID(fnCall.arg)

\* C16: while the table is open, what Get returns for a state is, in the
\* first numPlayers slots, the vector of the last Put of the state (whatever
\* was Put for other states since) and, when the state was never Put and
\* NewFileDB made the file, 1/numPlayers; the other slots are 0.
C16_TableIsMap ==
    (prog = "solve" /\ mpc = "open") =>
      \A gs \in DBStates(numPlayers) :
         \E g \in {Get(fileDB, dbPath, gs)} :
            /\ \A i \in Slots : i > numPlayers => g.result[i] = FloatZero
            /\ gs \in DOMAIN lastPut =>
                  \A i \in 1..numPlayers : g.result[i] = lastPut[gs][i]
            /\ (gs \notin DOMAIN lastPut /\ created) =>
                  \A i \in 1..numPlayers : g.result[i] = InverseOf[numPlayers]

\* Of two players' table, a state was Put, then the state of the next record
\* was Put, and Get was called on the first.
C16_Witness ==
    /\ prog = "solve"
    /\ mpc = "open"
    /\ numPlayers = 2
    /\ lastGet # <<>>
    /\ fileDB.nPuts = 2
    /\ lastGet[1].state \in DOMAIN lastPut
    /\ \E t \in DOMAIN lastPut :
          calcOffset(t) = calcOffset(lastGet[1].state) + 1

\* C17: the step in which main calls NewFileDB.  With no file at the path it
\* leaves a file of the size of the table, every record of which is
\* 1/numPlayers, mapped by the FileDB, and main goes on.  With a file of
\* another size it leaves the file as it was (size and bytes), maps nothing,
\* and main exits with code 1.
C17_OpenOrFail ==
    [][(prog = "solve" /\ mpc = "start" /\ mpc' # "start") =>
         /\ ~dbPath.exists =>
               /\ dbPath'.exists
               /\ dbPath'.size = FileSize(numPlayers)
               /\ fileDB'.mapped
               /\ mpc' = "open"
               /\ \A gs \in DBStates(numPlayers) : \A i \in 1..numPlayers :
                     Get(fileDB', dbPath', gs).result[i] = InverseOf[numPlayers]
         /\ (dbPath.exists /\ dbPath.size # FileSize(numPlayers)) =>
               /\ dbPath' = dbPath
               /\ ~fileDB'.mapped
               /\ mpc' = "exited"
               /\ exitCode' = 1]_vars

\* main of two players has exited with code 1 on the table of one player,
\* which is as it was.
C17_Witness ==
    /\ prog = "solve"
    /\ numPlayers = 2
    /\ mpc = "exited"
    /\ exitCode = 1
    /\ dbPath.exists
    /\ dbPath.size = FileSize(1)
    /\ ~fileDB.mapped

(***************************************************************************)
(* The tables of the dice.                                                 *)
(***************************************************************************)
RECURSIVE Factorial(_)
Factorial(n) == IF n <= 1 THEN 1 ELSE n * Factorial(n - 1)

\* The unordered rolls of n dice.
Multisets(n) == {r \in [Faces -> 0..n] : NumDice(r) = n}

\* The number of ordered outcomes that give the roll: n! / (c1! ... c6!).
Multinomial(r) ==
    Factorial(NumDice(r))
      \div (Factorial(r[1]) * Factorial(r[2]) * Factorial(r[3])
              * Factorial(r[4]) * Factorial(r[5]) * Factorial(r[6]))

\* C18: allRolls[n] holds every unordered roll of n dice, each once, each
\* with the weight (its multinomial count) / 6^n, and the counts add up to
\* 6^n.
C18_RollWeights ==
    (prog = "call" /\ fnCall.fn = "allRolls" /\ fnResult # <<>>) =>
      \E rolls \in {fnResult[1]} :
         /\ {rolls[i].Roll : i \in 1..Len(rolls)} = Multisets(fnCall.arg)
         /\ Len(rolls) = Cardinality(Multisets(fnCall.arg))
         /\ \A i \in 1..Len(rolls) :
               /\ rolls[i].Count = Multinomial(rolls[i].Roll)
               /\ rolls[i].Total = Pow(numSides, fnCall.arg)
         /\ SumSeq([i \in 1..Len(rolls) |-> rolls[i].Count])
               = Pow(numSides, fnCall.arg)

\* allRolls of all the dice has been read: it has a roll that one ordered
\* outcome gives and a roll that several give.
C18_Witness ==
    /\ prog = "call"
    /\ fnCall.fn = "allRolls"
    /\ fnCall.arg = MaxNumDice
    /\ fnResult # <<>>
    /\ \E i, j \in 1..Len(fnResult[1]) :
          fnResult[1][i].Count = 1 /\ fnResult[1][j].Count > 2

\* C19, as claimed: the number of roll ids of the game of 6 dice is 462.
C19_RollIdsAre462 ==
    (prog = "call" /\ fnCall.fn = "nDistinctRolls" /\ fnCall.arg = FullNumDice
       /\ fnResult # <<>>) =>
      fnResult[1] = 462

\* The number of unordered rolls of n dice with numSides faces: the binomial
\* coefficient (n + numSides - 1 over n).
RollsOfSize(n) ==
    Factorial(n + numSides - 1) \div (Factorial(n) * Factorial(numSides - 1))

\* C19, amended: the number of roll ids of a game is the sum, over the
\* numbers of dice from 0 to the most, of the number of unordered rolls of so
\* many dice; for 6 dice it is 1 + 6 + 21 + 56 + 126 + 252 + 462 = 924, of
\* which 462 are the rolls of exactly 6 dice.
C19_RollIdsAre924 ==
    (prog = "call" /\ fnCall.fn = "nDistinctRolls" /\ fnResult # <<>>) =>
      /\ fnResult[1] = SumSeq([k \in 1..(fnCall.arg + 1) |-> RollsOfSize(k - 1)])
      /\ fnCall.arg = FullNumDice =>
            /\ fnResult[1] = 924
            /\ RollsOfSize(FullNumDice) = 462

\* nDistinctRolls of the game of 6 dice has been computed.
C19_Witness ==
    /\ prog = "call"
    /\ fnCall.fn = "nDistinctRolls"
    /\ fnCall.arg = FullNumDice
    /\ fnResult # <<>>
    /\ fnResult[1] > RollsOfSize(FullNumDice)

(***************************************************************************)
(* The score of a hold.                                                    *)
(***************************************************************************)
\* The tricks of the dice of one face, each with the number of dice it takes.
FaceTricks(die) ==
    (IF die \in {1, 5} THEN {[n |-> 1, score |-> trickScores[singles[die]]]}
     ELSE {})
    \cup {[n |-> 3, score |-> trickScores[threeOfAKind[die]]],
          [n |-> 4, score |-> trickScores["FourOfAKind"]],
          [n |-> 5, score |-> trickScores["FiveOfAKind"]],
          [n |-> 6, score |-> trickScores["SixOfAKind"]]}

\* The most that the tricks of single faces give when they take every die of
\* the hold, -1 when they cannot take every die.
RECURSIVE BestExact(_)
BestExact(h) ==
    IF h = ZeroRoll THEN 0
    ELSE LET die  == CHOOSE d \in Faces :
                        h[d] > 0 /\ \A e \in Faces : h[e] > 0 => d <= e
             rest == {[t |-> t, best |-> BestExact(SubtractRolls(h, RepeatedRoll(die, t.n)))]
                        : t \in {u \in FaceTricks(die) : u.n <= h[die]}}
         IN  SetMax({-1} \cup {x.t.score + x.best : x \in {y \in rest : y.best >= 0}})

\* The score of the pattern of six dice that the hold makes, -1 when none.
PatternScore(h) ==
    IF isStraight(h) THEN trickScores["Straight"]
    ELSE IF isThreePairs(h) THEN trickScores["ThreePairs"]
    ELSE IF isFourOfAKindPlusPair(h) THEN trickScores["FourOfAKindPlusPair"]
    ELSE IF isTwoTriplets(h) THEN trickScores["TwoTriplets"]
    ELSE -1

BestDecomposition(h) == SetMax({BestExact(h), PatternScore(h)})

FourOnesTwoFives == [d \in Faces |-> IF d = 1 THEN 4 ELSE IF d = 5 THEN 2 ELSE 0]

\* C20: the score of a hold is the most that a decomposition of the whole
\* hold into tricks gives, the patterns of six dice included; no sum of trick
\* scores passes a uint8; scoreCache keeps that score under the id of the
\* hold; the hold {1,1,1,1,5,5} scores 30.
C20_ScoreIsBestDecomposition ==
    (prog = "call" /\ fnCall.fn = "CalculateScore" /\ fnResult # <<>>) =>
      /\ fnResult[1] = BestDecomposition(fnCall.arg)
      /\ fnResult[1] > 0
      /\ \A tricks \in Range(enumeratePossibleTricks(fnCall.arg)) :
            SumSeq([j \in 1..Len(tricks) |-> TrickScore(tricks[j])]) < Uint8Wrap
      /\ NumDice(fnCall.arg) <= MaxNumDice =>
            \E w \in Range(pkgTables.allRolls[NumDice(fnCall.arg)]) :
               w.Roll = fnCall.arg /\ pkgTables.scoreCache[w.ID] = fnResult[1]
      /\ fnCall.arg = FourOnesTwoFives => fnResult[1] = 1500 \div incr

\* The hold {1,1,1,1,5,5} has been scored, as the pattern and not as four of
\* a kind with two singles.
C20_Witness ==
    /\ prog = "call"
    /\ fnCall.fn = "CalculateScore"
    /\ fnCall.arg = FourOnesTwoFives
    /\ fnResult = <<PatternScore(FourOnesTwoFives)>>
    /\ BestExact(FourOnesTwoFives) < PatternScore(FourOnesTwoFives)
    /\ BestExact(FourOnesTwoFives) > 0

(***************************************************************************)
(* The rolls that score nothing.                                           *)
(***************************************************************************)
RollOf(dice) == CombineAll([i \in 1..Len(dice) |-> NewRoll(dice[i])])

\* The four patterns of six dice, each written out.
IsPattern(r) ==
    \/ r = RollOf(<<1, 2, 3, 4, 5, 6>>)
    \/ \E a, b, c \in Faces :
          a < b /\ b < c /\ r = RollOf(<<a, a, b, b, c, c>>)
    \/ \E a, b \in Faces : a # b /\ r = RollOf(<<a, a, a, a, b, b>>)
    \/ \E a, b \in Faces : a < b /\ r = RollOf(<<a, a, a, b, b, b>>)

\* C21: a roll is a farkle exactly when it has no 1, no 5, no face three
\* times or more and is none of the patterns of six dice; {2,3,4,6} is a
\* farkle and {1,2,3,4,5,6} is not.
C21_FarkleRolls ==
    (prog = "call" /\ fnCall.fn = "IsFarkle" /\ fnResult # <<>>) =>
      /\ fnResult[1] = (/\ fnCall.arg[1] = 0
                        /\ fnCall.arg[5] = 0
                        /\ \A die \in Faces : fnCall.arg[die] < 3
                        /\ ~IsPattern(fnCall.arg))
      /\ fnCall.arg = RollOf(<<2, 3, 4, 6>>) => fnResult[1]
      /\ fnCall.arg = RollOf(<<1, 2, 3, 4, 5, 6>>) => ~fnResult[1]
      /\ NumDice(fnCall.arg) <= MaxNumDice => fnResult[1] = IsFarkle(fnCall.arg)

\* Three pairs without a 1 or a 5 have been found to score, and so not to be
\* a farkle.
C21_Witness ==
    /\ prog = "call"
    /\ fnCall.fn = "IsFarkle"
    /\ fnCall.arg = RollOf(<<2, 2, 3, 3, 4, 4>>)
    /\ fnResult = <<FALSE>>

(***************************************************************************)
(* The bytes of a state.                                                   *)
(***************************************************************************)
\* C22: the bytes of a state are its round score, its dice, its number of
\* players and the scores of its players, NumPlayers + 3 bytes in all, and
\* GameStateFromBytes makes the state of them again.
C22_BytesRoundTrip ==
    (prog = "call" /\ fnCall.fn = "ToBytes" /\ fnResult # <<>>) =>
      /\ Len(fnResult[1]) = fnCall.arg.NumPlayers + 3
      /\ fnResult[1][1] = fnCall.arg.ScoreThisRound
      /\ fnResult[1][2] = fnCall.arg.NumDiceToRoll
      /\ fnResult[1][3] = fnCall.arg.NumPlayers
      /\ \A i \in 1..fnCall.arg.NumPlayers :
            fnResult[1][3 + i] = fnCall.arg.PlayerScores[i]
      /\ GameStateFromBytes(fnResult[1]) = fnCall.arg

\* A state of the most players, the last one with the highest score, has
\* been written and read back.
C22_Witness ==
    /\ prog = "call"
    /\ fnCall.fn = "ToBytes"
    /\ fnCall.arg.NumPlayers = maxNumPlayers
    /\ fnCall.arg.PlayerScores[maxNumPlayers] = ByteWrap - 1
    /\ fnCall.arg.PlayerScores[1] = 1
    /\ fnResult # <<>>
    /\ Len(fnResult[1]) = maxNumPlayers + 3
    /\ GameStateFromBytes(fnResult[1]) = fnCall.arg

(***************************************************************************)
(* The order of the calls of solve-farkle.                                 *)
(***************************************************************************)
IsPrefix(s, t) == Len(s) <= Len(t) /\ \A k \in 1..Len(s) : s[k] = t[k]

RECURSIVE Passes(_)
Passes(n) ==
    IF n <= 0 THEN <<>>
    ELSE <<"IterGameStates", "UpdateAll", "Get">> \o Passes(n - 1)

\* The calls of a run that nothing stops.
CallsOfRun(run) ==
    <<"NewFileDB">>
      \o (IF run.found THEN <<>> ELSE <<"SortedGameStates", "SaveGameStates">>)
      \o Passes(run.numIter)
      \o <<"Close">>

\* C23: main opens the table first, enumerates, sorts and saves the states
\* only when there is no file of games, then makes num_iter passes of
\* UpdateAll one after another, each over the saved file, and closes the table
\* once, after the last pass.  A run that an error ends has made a prefix of
\* these calls; the table is written in a pass and nowhere else.
C23_MainOrder ==
    prog = "solve" =>
      /\ IsPrefix(mainRun.calls, CallsOfRun(mainRun))
      /\ (mpc = "exited" /\ exitCode = 0) => mainRun.calls = CallsOfRun(mainRun)
      /\ mainRun.at = "pass" =>
            /\ mainRun.games
            /\ fileDB.mapped
            /\ mainRun.i < mainRun.numIter
      /\ lastPut # <<>> => mainRun.i + (IF mainRun.at = "pass" THEN 1 ELSE 0) >= 1
      /\ mainRun.i <= mainRun.numIter

\* A run without a file of games has made all its passes, with a Put in one of
\* them, and has closed the table.
C23_Witness ==
    /\ prog = "solve"
    /\ mpc = "exited"
    /\ exitCode = 0
    /\ ~mainRun.found
    /\ mainRun.numIter = MaxIter
    /\ mainRun.i = MaxIter
    /\ lastPut # <<>>
    /\ mainRun.calls[Len(mainRun.calls)] = "Close"

(***************************************************************************)
(* The panics of the package.                                              *)
(***************************************************************************)
\* Every action the loops over the rolls of the state's dice apply to it.
AppliedActions(state) ==
    {IF e.farkle THEN e.action ELSE OverflowStop(state, e.action) :
       e \in Range(pkgTables.rollActions[state.NumDiceToRoll])}

\* The states whose rolls and actions are being gone through: that of the
\* innermost call of the enumeration, those the workers compute.
StatesAtWork ==
    (IF prog = "enumerate" /\ epc = "running" THEN {Top.state} ELSE {})
    \cup (IF prog = "update"
          THEN {workers[w].state : w \in {v \in DOMAIN workers : workers[v].pc = "calc"}}
          ELSE {})

\* C24: no action applied to a state, in the enumeration and in the update,
\* holds more dice than the state has to roll, so that ApplyAction does not
\* panic and leaves 1..MaxNumDice dice to roll; and when the package has built
\* its tables, every trick was taken from a roll that has its dice and every
\* hold has a roll id.
C24_NoPanic ==
    /\ \A state \in StatesAtWork :
          /\ state.NumDiceToRoll \in 1..MaxNumDice
          /\ \A action \in AppliedActions(state) :
                /\ ~ApplyActionPanics(state, action)
                /\ ApplyAction(state, action).NumDiceToRoll \in 1..MaxNumDice
    /\ (prog = "enumerate" /\ epc = "start") =>
          \A roll \in AllRollSet :
             /\ \A tricks \in Range(enumeratePossibleTricks(roll)) :
                   /\ CanSubtract(roll, tricks[1].Dice)
                   /\ SubtractRolls(roll, tricks[1].Dice) \in AllRollSet
             /\ \A hold \in Range(potentialHolds(roll)) :
                   /\ hold \in DOMAIN rollToID[rollOrder]
                   /\ CanSubtract(roll, hold)

\* The enumeration has applied an action that holds every die of the state
\* and rolls on.
C24_Witness ==
    /\ prog = "enumerate"
    /\ epc = "running"
    /\ Len(callStack) >= 2
    /\ \E from \in {callStack[Len(callStack) - 1]} :
       \E made \in {Transitions(from.state)[from.next]} :
          /\ ~made.farkle
          /\ made.action.ContinueRolling
          /\ pkgTables.rollNumDice[made.action.HeldDiceID] = from.state.NumDiceToRoll
          /\ made.newState = Top.state
          /\ Top.state.NumDiceToRoll = MaxNumDice

(***************************************************************************)
(* The workers of UpdateAll.                                               *)
(***************************************************************************)
\* The value UpdateAll has a worker compute for the state from the table.
ValueFrom(state, table) ==
    IF IsGameOver(state) THEN calcEndGameValue(state)
    ELSE calcStateValue(state, table)

\* The table after the pairs k..last of the stream were computed and Put one
\* after another, in the order of the stream, by one worker with no batch.
RECURSIVE OneByOne(_, _, _, _)
OneByOne(table, states, k, last) ==
    IF k > last THEN table
    ELSE OneByOne(dbPut(table, ID(states[k].state),
                        ValueFrom(states[k].state, table)),
                  states, k + 1, last)

\* C25: whenever no worker is alive (before the first depth group, between
\* two groups, after the last) the table is what computing the pairs sent so
\* far one after another gives, whichever worker received which state and
\* however their steps and their Puts fell.
C25_OrderIndependent ==
    (prog = "update" /\ DOMAIN workers = {}) =>
      db = OneByOne([prior |-> db.prior, puts |-> <<>>], stream, 1, pos)

\* UpdateAll has returned, and the Puts were not made in the order of the
\* stream.
C25_Witness ==
    /\ prog = "update"
    /\ upc = "done"
    /\ DOMAIN workers = {}
    /\ Len(putLog) = Len(stream)
    /\ \E k \in 1..Len(stream) : putLog[k] # ID(stream[k].state)
    /\ db # OneByOne([prior |-> db.prior, puts |-> <<>>], stream, 1, 0)

\* The workers between mx.RLock() and mx.RUnlock(), and those between
\* mx.Lock() and mx.Unlock().
ReadLocked == {w \in DOMAIN workers : workers[w].pc = "calc"}
WriteLocked == {w \in DOMAIN workers : workers[w].pc \in {"put", "lastput"}}

\* C26: a worker reads the table for calcStateValue only while it holds the
\* read lock and Puts only while it holds the write lock; while a worker
\* holds the write lock no other holds it and none holds the read lock, so
\* no Put falls between the reads of a calcStateValue; no worker holds both
\* locks; and the table changes only by the step of the worker that holds
\* the write lock.
C26_LockDiscipline ==
    /\ [](prog = "update" =>
            /\ mx.readers = ReadLocked
            /\ mx.writer = WriteLocked
            /\ Cardinality(mx.writer) <= 1
            /\ mx.writer # {} => mx.readers = {}
            /\ mx.readers \cap mx.writer = {})
    /\ [][(prog = "update" /\ (db' # db \/ putLog' # putLog)) =>
            /\ mx.writer # {}
            /\ mx.readers = {}
            /\ mx'.writer = {}
            /\ \A w \in DOMAIN workers \ mx.writer :
                  w \in DOMAIN workers' /\ workers'[w] = workers[w]]_vars

\* A worker holds the write lock with a batch to Put while another waits to
\* read the table.
C26_Witness ==
    /\ prog = "update"
    /\ \E w, v \in DOMAIN workers :
          /\ w # v
          /\ workers[w].pc \in {"put", "lastput"}
          /\ workers[w].batchIDs # <<>>
          /\ mx.writer = {w}
          /\ workers[v].pc = "rlock"

\* The number of Puts of the pass under the id of the k-th pair.
PutsOf(k) ==
    Cardinality({j \in 1..Len(putLog) : putLog[j] = ID(stream[k].state)})

\* UpdateAll has returned with every state of the stream Put once and none
\* left behind.
ReturnedComplete ==
    /\ upc = "done"
    /\ pos = Len(stream)
    /\ DOMAIN workers = {}
    /\ \A c \in 1..Len(chans) : chans[c].buf = <<>>
    /\ \A k \in 1..Len(stream) : PutsOf(k) = 1

\* C27: on every finite stream UpdateAll returns, and when it has returned
\* every state of the stream has been Put exactly once and none is left in a
\* channel or in the batch of a worker.
C27_RunsToCompletion ==
    prog = "update" => <>[]ReturnedComplete

\* The ids of the states whose loops are running.
ExpandingIDs == {ID(callStack[i].state) : i \in 1..Len(callStack)}

\* C28: the loops of a state run at most once: a call goes on to its loops
\* only for a state that is not finished, is not on the stack and has no
\* depth yet; the states on the stack are distinct and are the ones whose
\* bit is set; a state gets its depth and is yielded when its loops end, once;
\* and the call on the initial state returns, with the stack and the bit
\* mask empty.
C28_Terminates ==
    /\ [](prog = "enumerate" =>
            /\ Cardinality(ExpandingIDs) = Len(callStack)
            /\ inStack = ExpandingIDs
            /\ ExpandingIDs \cap DOMAIN depthMap = {}
            /\ Cardinality(DOMAIN depthMap) = Len(emitted)
            /\ \A i \in 1..Len(callStack) : ~IsGameOver(callStack[i].state))
    /\ [][prog = "enumerate" =>
            /\ Len(callStack') > Len(callStack) =>
                 /\ ID(callStack'[Len(callStack')].state)
                      \notin ExpandingIDs \cup DOMAIN depthMap
                 /\ Len(callStack') = Len(callStack) + 1
                 /\ \A i \in 1..Len(callStack) :
                       callStack'[i].state = callStack[i].state
            /\ emitted' # emitted =>
                 /\ callStack # <<>>
                 /\ ID(Top.state) \notin DOMAIN depthMap
                 /\ DOMAIN depthMap' = DOMAIN depthMap \cup {ID(Top.state)}
                 /\ depthMap'[ID(Top.state)] > 0
                 /\ emitted' = Append(emitted, [depth |-> depthMap'[ID(Top.state)],
                                                state |-> Top.state])
                 /\ callStack' = <<>> \/ Len(callStack') = Len(callStack) - 1
            /\ emitted' = emitted => depthMap' = depthMap]_vars
    /\ prog = "enumerate" =>
         <>[](epc = "done" /\ callStack = <<>> /\ inStack = {})

\* The loops reach a farkle whose next state is on the stack, the state
\* itself or a state further down: the call on it returns at once.
C28_Witness ==
    /\ prog = "enumerate"
    /\ epc = "running"
    /\ Len(callStack) > 1
    /\ \E t \in Range(Transitions(Top.state)) :
          /\ t.farkle
          /\ ID(t.newState) \in inStack
          /\ t.newState # Top.state

\* What the call on the successor t of the state s returned to the loops of
\* s, seen when s has just been yielded: 0 for a finished game, 0 for a state
\* on the stack during the loops of s (s itself, or a state whose loops are
\* still running), and the depth set for any other.
ChildDepth(s, t) ==
    IF IsGameOver(t) THEN 0
    ELSE IF ID(t) \in inStack \cup {ID(s)} THEN 0
    ELSE DepthGet(depthMap, ID(t))

TakenActions(state, rollID) ==
    {OverflowStop(state, a) : a \in Range(pkgTables.rollIDToPotentialActions[rollID])}

\* The record of the state the action leads to, unrotated after a stop.
ValueOfAction(state, action, table) ==
    IF action.ContinueRolling
    THEN dbGet(table, ID(ApplyAction(state, action)), state.NumPlayers)
    ELSE unrotate(dbGet(table, ID(ApplyAction(state, action)), state.NumPlayers),
                  state.NumPlayers)

\* C31: for a state a worker computes and a roll that is no farkle,
\* SelectAction returns one of the roll's potential actions (a continue taken
\* as a stop when the round score has saturated) with the table's value of
\* the state it leads to, unrotated after a stop; it returns neither the
\* farkle action nor the vector of zeros.
C31_ReturnsPotentialAction ==
    prog = "update" =>
      \A w \in DOMAIN workers :
         workers[w].pc = "calc" =>
           \A rollID \in ScoringRollIDs(workers[w].state) :
              \E got \in {SelectAction(workers[w].state, rollID, db)} :
                 /\ got.bestAction \in TakenActions(workers[w].state, rollID)
                 /\ got.bestAction # FarkleAction
                 /\ got.bestWinProb # ZeroValue
                 /\ got.bestWinProb
                      = ValueOfAction(workers[w].state, got.bestAction, db)

(***************************************************************************)
(* The round score that has saturated.                                     *)
(***************************************************************************)
\* The state at the start of the next player's turn after state.
IsNextTurnOf(t, state) ==
    /\ t.ScoreThisRound = 0
    /\ t.NumDiceToRoll = MaxNumDice
    /\ t.NumPlayers = state.NumPlayers
    /\ \A i \in 1..(state.NumPlayers - 1) :
          t.PlayerScores[i] = state.PlayerScores[i + 1]

\* C32: in a state whose round score has saturated, every transition the
\* enumerator follows is a stop and leads to the start of the next player's
\* turn, and for every roll SelectAction evaluates stops alone and returns a
\* stop.
C32_OverflowStop ==
    /\ (prog = "enumerate" /\ callStack # <<>>
          /\ Top.state.ScoreThisRound = MaxUint8) =>
         \A t \in Range(Transitions(Top.state)) :
            /\ ~t.action.ContinueRolling
            /\ IsNextTurnOf(t.newState, Top.state)
    /\ prog = "update" =>
         \A w \in DOMAIN workers :
            (workers[w].pc = "calc"
               /\ workers[w].state.ScoreThisRound = MaxUint8) =>
              \A wRoll \in Range(pkgTables.allRolls[workers[w].state.NumDiceToRoll]) :
                 \E got \in {SelectAction(workers[w].state, wRoll.ID, db)} :
                    /\ ~got.bestAction.ContinueRolling
                    /\ \A a \in Range(got.evaluated) :
                          /\ ~a.ContinueRolling
                          /\ IsNextTurnOf(ApplyAction(workers[w].state, a),
                                          workers[w].state)

\* The enumerator is in the loops of a state whose round score has saturated
\* and that has fewer dice to roll than a turn starts with, and one of its
\* rolls offers a continue.
C32_Witness ==
    /\ prog = "enumerate"
    /\ callStack # <<>>
    /\ Top.state.ScoreThisRound = MaxUint8
    /\ Top.state.NumDiceToRoll < MaxNumDice
    /\ \E e \in Range(pkgTables.rollActions[Top.state.NumDiceToRoll]) :
          ~e.farkle /\ e.action.ContinueRolling

(***************************************************************************)
(* unrotate and the seats of the players.                                  *)
(***************************************************************************)
RECURSIVE UnrotateTimes(_, _, _)
\* unrotate applied k times.
UnrotateTimes(pWin, n, k) ==
    IF k = 0 THEN pWin ELSE UnrotateTimes(unrotate(pWin, n), n, k - 1)

\* States of n players who all have different scores.
SeatedStates(n) ==
    {StateWith(n, <<1, minOnBoard, 3, 4>>, round, dice) :
       round \in {0, minOnBoard}, dice \in 1..MaxNumDice}

\* The stops the rolls of the state offer, the farkle action among them.
StopsAt(state) ==
    {e.action : e \in {e \in Range(pkgTables.rollActions[state.NumDiceToRoll]) :
                         ~e.action.ContinueRolling}}

\* C33: slot i of unrotate(v, n) is slot (i - 1) mod n of v for the n
\* players (counted from 0), so the first n slots are permuted and their sum
\* is kept, and n applications give the first n slots back; after a stop the
\* player of slot i is in slot (i - 1) mod n of the new state, so that a
\* vector by the seats of the new state, unrotated, is by the seats of the
\* old one, with the player who moved in slot 0.
C33_Unrotate ==
    (prog = "call" /\ fnCall.fn = "unrotate" /\ fnResult # <<>>) =>
      /\ \A i \in 0..(fnCall.arg.n - 1) :
            fnResult[1].num[i + 1]
              = fnCall.arg.pWin.num[((i + fnCall.arg.n - 1) % fnCall.arg.n) + 1]
      /\ fnResult[1].den = fnCall.arg.pWin.den
      /\ SumSeq([i \in 1..fnCall.arg.n |-> fnResult[1].num[i]])
           = SumSeq([i \in 1..fnCall.arg.n |-> fnCall.arg.pWin.num[i]])
      /\ \A i \in 1..fnCall.arg.n :
            UnrotateTimes(fnCall.arg.pWin, fnCall.arg.n, fnCall.arg.n).num[i]
              = fnCall.arg.pWin.num[i]
      /\ \A gs \in SeatedStates(fnCall.arg.n) :
         \A a \in StopsAt(gs) :
            \E t \in {ApplyAction(gs, a)} :
               /\ \A i \in 1..(fnCall.arg.n - 1) :
                     t.PlayerScores[((i + fnCall.arg.n - 1) % fnCall.arg.n) + 1]
                       = gs.PlayerScores[i + 1]
               /\ t.PlayerScores[fnCall.arg.n] >= gs.PlayerScores[1]
               /\ \E seats \in {unrotate([num |-> t.PlayerScores, den |-> 1],
                                          fnCall.arg.n)} :
                     /\ seats.num[1] = t.PlayerScores[fnCall.arg.n]
                     /\ \A i \in 2..fnCall.arg.n :
                           seats.num[i] = gs.PlayerScores[i]

\* unrotate has returned the vector of three players with three different
\* values, and a fourth slot that is not theirs.
C33_Witness ==
    /\ prog = "call"
    /\ fnCall.fn = "unrotate"
    /\ fnCall.arg.n = 3
    /\ fnCall.arg.pWin.num = <<0, 1, 2, 1>>
    /\ fnResult = <<[num |-> <<2, 0, 1, 0>>, den |-> 4]>>

(***************************************************************************)
(* The game as the enumeration walks it: the states of the calls on the    *)
(* stack are a path of legal transitions from the initial state, and every *)
(* state the game can reach is at the top of the stack once.               *)
(***************************************************************************)
SpecWalk == InitEnum /\ [][EnumStart \/ EnumStep]_vars

(***************************************************************************)
(* The turns after a player has reached the score to win.                  *)
(***************************************************************************)
\* The slots of the players who have the score to win.
CrossedSlots(gs) == {i \in 1..gs.NumPlayers : gs.PlayerScores[i] >= scoreToWin}

\* How many slots the foremost of them is from slot 0; -1 when there is none.
TurnsLeft(gs) ==
    IF CrossedSlots(gs) = {} THEN 0 - 1 ELSE SetMin(CrossedSlots(gs)) - 1

\* The states of the calls on the stack: a sequence of legal transitions from
\* the initial state.
StackStates == [i \in 1..Len(callStack) |-> callStack[i].state]

\* The turn-ending actions among the transitions into path[i + 1 .. j]; a
\* transition that goes on rolling leaves a round score above 0.
TurnEnds(path, i, j) ==
    Cardinality({k \in (i + 1)..j : path[k].ScoreThisRound = 0})

\* 1 for a state a turn-ending action leads to.
TurnEnd(t) == IF t.ScoreThisRound = 0 THEN 1 ELSE 0

\* The first state of the path in which a player has the score to win.
FirstCrossing(path) ==
    SetMin({Len(path) + 1} \cup {i \in 1..Len(path) : CrossedSlots(path[i]) # {}})

\* The player in a slot, after so many turn-ending actions, named by the
\* slot the player had in the initial state.
SeatOf(slot, turns) == (slot - 1 + turns) % numPlayers

\* C34: on every legal transition the foremost player with the score to win
\* enters the last slot when nobody had it, moves one slot forward with every
\* turn-ending action and stays with every other, and the state is over
\* exactly when that player is in slot 0; along the path of the enumerator
\* the game is over exactly NumPlayers - 1 turn-ending actions after the
\* first crossing, and the player in slot 0 is then the one who crossed first.
C34_EndOfGameTurns ==
    (prog = "enumerate" /\ callStack # <<>>) =>
      /\ TurnsLeft(Top.state) # 0
      /\ \E path \in {StackStates} :
         \E c \in {FirstCrossing(path)} :
         \E turns \in {TurnEnds(path, 1, Len(path))} :
         \E before \in {TurnEnds(path, 1, Min(c, Len(path)))} :
         \A e \in Range(Transitions(Top.state)) :
         \E t \in {e.newState} :
            /\ TurnEnd(t) = (IF e.action.ContinueRolling THEN 0 ELSE 1)
            /\ IsGameOver(t) <=> TurnsLeft(t) = 0
            /\ TurnsLeft(Top.state) < 0 =>
                  IF e.action.ContinueRolling
                  THEN TurnsLeft(t) < 0
                  ELSE TurnsLeft(t) \in {0 - 1, numPlayers - 1}
            /\ TurnsLeft(Top.state) > 0 =>
                  TurnsLeft(t) = TurnsLeft(Top.state) - TurnEnd(t)
            /\ (c > Len(path) /\ CrossedSlots(t) = {}) => ~IsGameOver(t)
            /\ (c > Len(path) /\ CrossedSlots(t) # {}) =>
                  /\ CrossedSlots(t) = {numPlayers}
                  /\ IsGameOver(t) <=> 0 = numPlayers - 1
            /\ c <= Len(path) =>
                  /\ CrossedSlots(path[c]) = {numPlayers}
                  /\ turns - before + TurnEnd(t) <= numPlayers - 1
                  /\ IsGameOver(t) <=>
                        turns - before + TurnEnd(t) = numPlayers - 1
                  /\ IsGameOver(t) =>
                        SeatOf(1, turns + TurnEnd(t)) = SeatOf(numPlayers, before)

\* Two players: the first has the score to win, and the other one ends the
\* last turn of the game with the score to win as well.
C34_Witness ==
    /\ prog = "enumerate"
    /\ callStack # <<>>
    /\ numPlayers = 2
    /\ TurnsLeft(Top.state) = 1
    /\ \E e \in Range(Transitions(Top.state)) :
          /\ IsGameOver(e.newState)
          /\ CrossedSlots(e.newState) = {1, 2}
          /\ FirstCrossing(StackStates) < Len(callStack)

(***************************************************************************)
(* The banked scores, the dice and the players along the legal             *)
(* transitions.                                                            *)
(***************************************************************************)
\* The slot the player of slot i has after a transition.
SlotAfter(i, action) ==
    IF action.ContinueRolling THEN i
    ELSE ((i + numPlayers - 2) % numPlayers) + 1

\* How many of the players of the slots have the score v.
CountOf(gs, slots, v) == Cardinality({i \in slots : gs.PlayerScores[i] = v})

\* C35: on every legal transition every player has, in the slot the rotation
\* gives, at least the banked score the player had, and the players other
\* than the one in slot 0 have the scores they had, each as many times.
C35_ScoresOnlyGoUp ==
    (prog = "enumerate" /\ callStack # <<>>) =>
      \A e \in Range(Transitions(Top.state)) :
         /\ \A i \in 1..numPlayers :
               e.newState.PlayerScores[SlotAfter(i, e.action)]
                 >= Top.state.PlayerScores[i]
         /\ \A i \in 2..numPlayers :
               e.newState.PlayerScores[SlotAfter(i, e.action)]
                 = Top.state.PlayerScores[i]
         /\ \A v \in {Top.state.PlayerScores[i] : i \in 2..numPlayers}
                     \cup {e.newState.PlayerScores[i] :
                             i \in (1..numPlayers) \ {SlotAfter(1, e.action)}} :
               CountOf(e.newState, (1..numPlayers) \ {SlotAfter(1, e.action)}, v)
                 = CountOf(Top.state, 2..numPlayers, v)

\* Two players on the board, and a stop whose sum does not fit the width.
C35_Witness ==
    /\ prog = "enumerate"
    /\ callStack # <<>>
    /\ numPlayers = 2
    /\ Top.state.PlayerScores[2] > 0
    /\ \E e \in Range(Transitions(Top.state)) :
          /\ ~e.farkle
          /\ ~e.action.ContinueRolling
          /\ Top.state.PlayerScores[1] + RoundScoreWith(Top.state, e.action) > MaxUint8
          /\ e.newState.PlayerScores[2] = MaxUint8

\* C36: every state on a path of legal transitions from the initial state
\* has 1 to MaxNumDice dice to roll and the players of the initial state.
C36_DiceAndPlayers ==
    (prog = "enumerate" /\ callStack # <<>>) =>
      /\ MaxNumDice <= FullNumDice
      /\ NewGameState(numPlayers).NumPlayers = numPlayers
      /\ callStack[1].state = NewGameState(numPlayers)
      /\ Top.state.NumDiceToRoll \in 1..MaxNumDice
      /\ Top.state.NumPlayers = numPlayers
      /\ \A e \in Range(Transitions(Top.state)) :
            /\ e.newState.NumDiceToRoll \in 1..MaxNumDice
            /\ e.newState.NumPlayers = numPlayers

\* The last die is held and the player rolls on, with all the dice again.
C36_Witness ==
    /\ prog = "enumerate"
    /\ callStack # <<>>
    /\ numPlayers = 2
    /\ Top.state.NumDiceToRoll = 1
    /\ \E e \in Range(Transitions(Top.state)) :
          /\ e.action.ContinueRolling
          /\ e.newState.NumDiceToRoll = MaxNumDice
          /\ e.newState.ScoreThisRound > Top.state.ScoreThisRound

\* C37: in every state on a path of the transitions the enumerator follows
\* each player's banked score is 0 or at least minOnBoard.
C37_OnBoardMinimum ==
    (prog = "enumerate" /\ callStack # <<>>) =>
      /\ \A i \in 1..numPlayers :
            \/ Top.state.PlayerScores[i] = 0
            \/ Top.state.PlayerScores[i] >= minOnBoard
      /\ \A e \in Range(Transitions(Top.state)) :
         \A i \in 1..numPlayers :
            \/ e.newState.PlayerScores[i] = 0
            \/ e.newState.PlayerScores[i] >= minOnBoard

\* A player with nothing banked has a stop that would bank less than
\* minOnBoard, which is not followed, and one that banks minOnBoard or more.
C37_Witness ==
    /\ prog = "enumerate"
    /\ callStack # <<>>
    /\ Top.state.PlayerScores[1] = 0
    /\ \E x \in Range(pkgTables.rollActions[Top.state.NumDiceToRoll]) :
          /\ ~x.farkle
          /\ ~x.action.ContinueRolling
          /\ RoundScoreWith(Top.state, x.action) < minOnBoard
          /\ NotOnBoardStop(Top.state, x.action, ApplyAction(Top.state, x.action))
    /\ \E e \in Range(Transitions(Top.state)) :
          /\ ~e.farkle
          /\ ~e.action.ContinueRolling
          /\ e.newState.PlayerScores[numPlayers] >= minOnBoard

(***************************************************************************)
(* The potential holds score; the roll of no dice does not.                *)
(***************************************************************************)
\* The states of one player about to roll all the dice, with a round score
\* of nothing, of something and of all the width holds.
RoundStates ==
    {StateWith(1, <<0>>, round, MaxNumDice) : round \in {0, 1, MaxUint8}}

\* C38: every potential hold of a roll has dice, all of them dice of the
\* roll, and a score above 0, which is what scoreCache has at its id;
\* scoreCache[0], of the roll of no dice, is 0.  So ApplyAction sets the
\* round score to 0 for the farkle action, and for a potential action that
\* rolls on it leaves a round score above 0 and not below what it was.
C38_HoldsScore ==
    (prog = "call" /\ fnCall.fn = "potentialHolds" /\ fnResult # <<>>) =>
      /\ \A h \in Range(fnResult[1]) :
            /\ h # ZeroRoll
            /\ NumDice(h) >= 1
            /\ CanSubtract(fnCall.arg, h)
            /\ CalculateScore(h) > 0
            /\ NumDice(fnCall.arg) <= MaxNumDice =>
                  /\ pkgTables.scoreCache[rollToID[rollOrder][h]] = CalculateScore(h)
                  /\ rollToID[rollOrder][h] # 0
      /\ NumDice(fnCall.arg) <= MaxNumDice =>
            /\ rollIDToPotentialHolds[rollOrder][rollToID[rollOrder][fnCall.arg]]
                  = fnResult[1]
            /\ \A a \in Range(pkgTables.rollIDToPotentialActions[
                                  rollToID[rollOrder][fnCall.arg]]) :
                  /\ pkgTables.scoreCache[a.HeldDiceID] > 0
                  /\ rollsByID[rollOrder][a.HeldDiceID] \in Range(fnResult[1])
                  /\ \A gs \in RoundStates :
                        a.ContinueRolling =>
                          /\ ApplyAction(gs, a).ScoreThisRound > 0
                          /\ ApplyAction(gs, a).ScoreThisRound >= gs.ScoreThisRound
      /\ rollsByID[rollOrder][0] = ZeroRoll
      /\ pkgTables.scoreCache[0] = 0
      /\ FarkleAction.HeldDiceID = 0
      /\ \A gs \in RoundStates : ApplyAction(gs, FarkleAction).ScoreThisRound = 0

\* The holds of {1,1,1} have been listed: one 1 and three of them among them.
C38_Witness ==
    /\ prog = "call"
    /\ fnCall.fn = "potentialHolds"
    /\ fnCall.arg = RollOf(<<1, 1, 1>>)
    /\ fnResult # <<>>
    /\ Len(fnResult[1]) > 3
    /\ RollOf(<<1>>) \in Range(fnResult[1])
    /\ RollOf(<<1, 1, 1>>) \in Range(fnResult[1])

(***************************************************************************)
(* The dice of a trick.                                                    *)
(***************************************************************************)
\* How many dice the type of a trick names.
DiceOfType(type) ==
    CASE type \in {"Single1", "Single5"} -> 1
      [] type \in Range(threeOfAKind) -> 3
      [] type = "FourOfAKind" -> 4
      [] type = "FiveOfAKind" -> 5
      [] OTHER -> 6

\* The dice the type names: one face for the singles and the kinds, the
\* whole roll of six for the patterns.
HoldsItsDice(trick, roll) ==
    /\ NumDice(trick.Dice) = DiceOfType(trick.Type)
    /\ CanSubtract(roll, trick.Dice)
    /\ trick.Type \in {"Single1", "Single5"} =>
          \E die \in {1, 5} : singles[die] = trick.Type /\ trick.Dice = NewRoll(die)
    /\ trick.Type \in Range(threeOfAKind) =>
          \E die \in Faces :
             threeOfAKind[die] = trick.Type /\ trick.Dice = RepeatedRoll(die, 3)
    /\ trick.Type \in {"FourOfAKind", "FiveOfAKind", "SixOfAKind"} =>
          \E die \in Faces : trick.Dice = RepeatedRoll(die, DiceOfType(trick.Type))
    /\ trick.Type \in {"Straight", "ThreePairs", "FourOfAKindPlusPair", "TwoTriplets"} =>
          trick.Dice = roll

\* C39: every trick of every list enumeratePossibleTricks returns holds the
\* dice its type names, so that a roll with a face four times or more has a
\* list that begins with three dice of the face.
C39_TricksHoldTheirDice ==
    (prog = "call" /\ fnCall.fn = "enumeratePossibleTricks" /\ fnResult # <<>>) =>
      /\ \A tricks \in Range(fnResult[1]) :
         \A j \in 1..Len(tricks) :
            HoldsItsDice(tricks[j], fnCall.arg)
      /\ \A die \in Faces :
            fnCall.arg[die] >= 4 =>
              \E tricks \in Range(fnResult[1]) :
                 tricks[1].Dice = RepeatedRoll(die, 3)

\* What the code does: a trick of a kind holds every die of its face.
TricksHoldTheFace ==
    (prog = "call" /\ fnCall.fn = "enumeratePossibleTricks" /\ fnResult # <<>>) =>
      \A tricks \in Range(fnResult[1]) :
      \A j \in 1..Len(tricks) :
         \/ HoldsItsDice(tricks[j], fnCall.arg)
         \/ /\ tricks[j].Type \in Range(threeOfAKind) \cup {"FourOfAKind", "FiveOfAKind"}
            /\ \E die \in Faces :
               \E k \in (DiceOfType(tricks[j].Type) + 1)..fnCall.arg[die] :
                  tricks[j].Dice = RepeatedRoll(die, k)

(***************************************************************************)
(* The roll ids and the tables they index.                                 *)
(***************************************************************************)
\* The ids of the rolls of allRolls, of every number of dice.
IDsOfAllRolls ==
    UNION {{w.ID : w \in Range(pkgTables.allRolls[nDice])} : nDice \in 0..MaxNumDice}

====
